---- MODULE Spec2Model ----
(***************************************************************************)
(* Cross-worker handshake of the DEM engine: the kinematic worker (kT),    *)
(* the dynamic worker (dT) and the caller thread (DEMSolver::DoDynamics,   *)
(* DoDynamicsThenSync, ResetWorkerThreads).                                *)
(*                                                                         *)
(* Every access to a shared flag, buffer, mutex or condition variable is   *)
(* one step of the thread that makes it.  A condition-variable wait is two *)
(* steps (the test of the predicate, then the call of wait), so that a     *)
(* notification issued between them is lost exactly as it is in C++.       *)
(*                                                                         *)
(* Buffers carry no payload; each carries the dT step (tag) of the owner   *)
(* state it holds or was computed from.  The tags and the variables        *)
(* kBufRead, lastRunTag, pubInCall, callKind, callsMade, swapInStep,      *)
(* thisCallDuration and stampAtCall are history variables: no guard of     *)
(* the program reads them.                                                 *)
(*                                                                         *)
(* The configuration of the solver (DEMSolver's user calls, Initialize and *)
(* ClearCache) is the record sys, one field per member of the class.  The  *)
(* variables lastCall, initCalls and cleared are history variables of that *)
(* part.                                                                   *)
(***************************************************************************)
EXTENDS Integers, Naturals, Sequences, FiniteSets, TLC

\* ---- bounds of the model ----
MaxFreq == 1      \* largest configured update frequency (max_drift)
MaxCycles == 2    \* largest number of dT cycles asked for in one call
MaxCalls == 2     \* number of calls the user makes on the solver
MaxFamily == 1    \* largest family number the user gives
MaxMaterials == 1 \* material types loaded at a time
MaxTemplates == 1 \* clump templates loaded
MaxComp == 2      \* largest number of spheres of a template
MaxBatches == 2   \* clump batches added
MaxClumps == 2    \* largest number of clumps of a batch
MaxObjs == 1      \* analytical objects added at a time
MaxMeshes == 1    \* meshes added
MaxPairs == 2     \* no-contact pairs declared
MaxRules == 1     \* family-change rules declared at a time
MaxPrescriptions == 1  \* length of the prescription list at which the user stops adding
MaxInits == 2     \* number of Initialize calls
VoxelIdBits == 3  \* width of voxelID_t
BinIdBits == 4    \* width of binID_t
InertiaOffsetBits == 4  \* width of inertiaOffset_t
FamilyBits == 2   \* width of family_t
MaxMerged == 2    \* length of the prescription list at which the user of PrescribeSpec stops
MaxSweepRules == 2  \* family-change rules declared by the user of SweepSpec
MaxTable == 2    \* materials the user of MaterialSpec loads at a time
MaxSorted == 2   \* clump templates the user of TemplateSpec loads
MaxCoord == 1    \* largest vertex coordinate of the meshes of MeshSpec
MaxNameLen == 2  \* characters of a wildcard name
MaxWildcards == 2   \* names given in one wildcard call
\* DEM_THRESHOLD_CANT_JITIFY_ALL_COMP, scaled: the number of clump components
\* that can be written into the kernels
DEM_THRESHOLD_CANT_JITIFY_ALL_COMP == 3

VARIABLES
    m_updateFreq,                 \* dynamicRequestedUpdateFrequency
    dynamicDone,
    kFresh,                       \* kinematicOwned_Cons2ProdBuffer_isFresh
    dFresh,                       \* dynamicOwned_Prod2ConsBuffer_isFresh
    stampLastUpdateOfDynamic,
    currentStampOfDynamic,
    nDynamicUpdates, nKinematicUpdates,
    nTimesDynamicHeldBack, nTimesKinematicHeldBack,
    kinematicCanProceed, dynamicCanProceed,          \* mutexes: owner
    kinematicOwnedBuffer_AccessCoordination,
    dynamicOwnedBuffer_AccessCoordination,
    cvK, cvD,                     \* a worker is blocked in cv wait
    dtUserCallDone, ktUserCallDone,                  \* WorkerReportChannel
    dtMainCanProceed, ktMainCanProceed,              \* channel mutexes
    cvMainD, cvMainK,             \* the caller is blocked in cv wait
    dStarted, kStarted,
    nDynamicCycles, cycle,
    pcK, pcD, pcM,
    kBufTag, kBufRead, kWorkTag, kListTag, dBufTag, dInUseTag, lastRunTag,
    pubInCall, callKind, callsMade,
    thisCallDuration,             \* argument of the run call in progress or last made
    stampAtCall,                  \* dT step counter when that call was made
    swapInStep,                   \* dT step at which the list in use was taken
    sys,                          \* the DEMSolver object
    lastCall,                     \* name of the last call made on the solver
    initCalls,                    \* number of Initialize calls made
    cleared                       \* ClearCache was called after the last Initialize

flagVars == <<dynamicDone, kFresh, dFresh>>
stampVars == <<stampLastUpdateOfDynamic, currentStampOfDynamic>>
statVars == <<nDynamicUpdates, nKinematicUpdates, nTimesDynamicHeldBack,
              nTimesKinematicHeldBack>>
mutexVars == <<kinematicCanProceed, dynamicCanProceed,
               kinematicOwnedBuffer_AccessCoordination,
               dynamicOwnedBuffer_AccessCoordination>>
cvVars == <<cvK, cvD>>
chanVars == <<dtUserCallDone, ktUserCallDone, dtMainCanProceed,
              ktMainCanProceed, cvMainD, cvMainK>>
startVars == <<dStarted, kStarted>>
tagVars == <<kBufTag, kBufRead, kWorkTag, kListTag, dBufTag, dInUseTag,
             lastRunTag>>
callVars == <<pubInCall, callKind, callsMade, thisCallDuration, stampAtCall>>

vars == <<m_updateFreq, flagVars, stampVars, statVars, mutexVars, cvVars,
          chanVars, startVars, nDynamicCycles, cycle, pcK, pcD, pcM,
          tagVars, callVars, swapInStep, sys, lastCall, initCalls,
          cleared>>

cfgVars == <<sys, lastCall, initCalls, cleared>>
\* everything but the solver object and its call history
hsVars == <<m_updateFreq, flagVars, stampVars, statVars, mutexVars, cvVars,
            chanVars, startVars, nDynamicCycles, cycle, pcK, pcD, pcM,
            tagVars, callVars, swapInStep>>

(***************************************************************************)
(* The DEMSolver object: user caches, the counts and arrays Initialize     *)
(* derives from them, and what Initialize hands to the workers.  A fatal   *)
(* error (SGPS_DEM_ERROR, std::out_of_range of vector/map .at) ends the    *)
(* call at the point where it is raised; what the call had written before  *)
(* stays written.                                                          *)
(***************************************************************************)
\* user family numbers are 0 .. MaxFamily; the reserved family is the next
DEM_RESERVED_FAMILY_NUM == MaxFamily + 1
UserFamilies == 0..MaxFamily
AllFamilies == 0..DEM_RESERVED_FAMILY_NUM

\* the scalars of a material and all lengths are counted in units of the
\* tolerance SGPS_DEM_TINY_FLOAT
SGPS_DEM_TINY_FLOAT == 1

Abs(x) == IF x < 0 THEN -x ELSE x

\* a DEMMaterial with Young's modulus E and rolling resistance Crr
DEMMaterial(E, Crr) == [E |-> E, nu |-> 0, CoR |-> 1, mu |-> 0, Crr |-> Crr]

\* an empty std::shared_ptr<DEMMaterial>
NullMaterial == DEMMaterial(-1, -1)

\* materials that differ from each other by more than the tolerance
Materials == {DEMMaterial(3 * k, 0) : k \in 1..MaxMaterials}

\* materials of which some agree within the tolerance, in E or in all
\* scalars but Crr
CloseMaterials ==
    {DEMMaterial(3, 0), DEMMaterial(3 + SGPS_DEM_TINY_FLOAT, 0),
     DEMMaterial(3, 3)}

\* test if 2 DEM materials are the same
is_DEM_material_same(a, b) ==
    /\ ~(Abs(a.E - b.E) > SGPS_DEM_TINY_FLOAT)
    /\ ~(Abs(a.nu - b.nu) > SGPS_DEM_TINY_FLOAT)
    /\ ~(Abs(a.CoR - b.CoR) > SGPS_DEM_TINY_FLOAT)
    /\ ~(Abs(a.mu - b.mu) > SGPS_DEM_TINY_FLOAT)
    /\ ~(Abs(a.Crr - b.Crr) > SGPS_DEM_TINY_FLOAT)

\* a float3
Float3(x, y, z) == [x |-> x, y |-> y, z |-> z]

RECURSIVE Pow2(_)
Pow2(n) == IF n <= 0 THEN 1 ELSE 2 * Pow2(n - 1)

\* std::numeric_limits<T>::max() of the index types; m_num_bins is a size_t,
\* twice as wide as binID_t
BinIdMax == Pow2(BinIdBits) - 1
SizeModulus == Pow2(2 * BinIdBits)
InertiaOffsetMax == Pow2(InertiaOffsetBits) - 1
FamilyMax == Pow2(FamilyBits) - 1

\* the power of 2 by which a voxel edge exceeds the length unit l
DEM_VOXEL_RES_POWER2 == 1
\* the initial value of l and of m_smallest_radius: larger than any length
FLT_MAX == 1000
\* a member that has no initializer and has not been assigned
Uninit == -1
\* a radius that is larger than the tolerance
UnitRadius == 2 * SGPS_DEM_TINY_FLOAT

\* what the members nvXp2, nvYp2, nvZp2 and m_voxelSize may be read as while
\* they are not assigned: a world of no extent, or one of a voxel that is
\* as many units long as there are bin ids
UninitWorlds ==
    {[m_voxelSize |-> v, nvXp2 |-> 0, nvYp2 |-> 0, nvZp2 |-> 0] :
        v \in {0, Pow2(BinIdBits)}}

\* the outcomes of the undefined behaviour met in Initialize: the read
\* through the end() that std::max_element returns for an empty vector, the
\* conversion to binID_t of a double that is out of its range, and the read
\* of the unassigned world members
UBOutcomes ==
    [max_element : {"unnoticed", "crash"},
     cast : {"wrap", "saturate"},
     world : UninitWorlds]

\* planes of the world box: all six sides, or all but the top
NumBoxPlanesAll == 6
NumBoxPlanesTopOpen == 5

Range(q) == {q[i] : i \in 1..Len(q)}

RECURSIVE SumSeq(_)
SumSeq(q) == IF q = <<>> THEN 0 ELSE Head(q) + SumSeq(Tail(q))

RECURSIVE Flatten(_)
Flatten(qq) == IF qq = <<>> THEN <<>> ELSE Head(qq) \o Flatten(Tail(qq))

\* q with every element mapped by F
MapSeq(q, F(_)) == [i \in 1..Len(q) |-> F(q[i])]

\* std::vector::resize(n, fill): keeps the elements it has, fills new ones
Resize(q, n, fill) ==
    [i \in 1..n |-> IF i <= Len(q) THEN q[i] ELSE fill]

\* hostUniqueVector: the distinct values of a vector in increasing order
RECURSIVE SortedSeqOf(_)
SortedSeqOf(S) ==
    IF S = {} THEN <<>>
    ELSE LET m == CHOOSE x \in S : \A y \in S : x <= y
         IN  <<m>> \o SortedSeqOf(S \ {m})

hostUniqueVector(q) == SortedSeqOf(Range(q))

\* locateMaskPair: position of the pair (i, j) of internal families in the
\* packed upper triangle of an F x F matrix (0-based)
locateMaskPair(i, j, F) ==
    LET lo == IF i < j THEN i ELSE j
        hi == IF i < j THEN j ELSE i
    IN  lo * F + hi - (lo * (lo + 1)) \div 2

DEM_PREVENT_CONTACT == TRUE
DEM_DONT_PREVENT_CONTACT == FALSE

\* what kT and dT hold before any Initialize has reached them
\* kT's data before Initialize: no sphere, no contact pair
NoGranData == [xyz |-> <<>>, radius |-> <<>>, familyID |-> <<>>, contactPairs |-> {}]

NoCounts ==
    [nOwnerBodies |-> 0, nOwnerClumps |-> 0, nExtObj |-> 0, nTriEntities |-> 0,
     nSpheresGM |-> 0, nTriGM |-> 0, nAnalGM |-> 0, nDistinctMassProperties |-> 0,
     nDistinctClumpBodyTopologies |-> 0, nMatTuples |-> 0]

NoJit ==
    [nDistinctClumpBodyTopologies |-> 0, nAnalGM |-> 0, objOwner |-> <<>>,
     objType |-> <<>>, objMaterial |-> <<>>, nFamilyMaskEntries |-> 0,
     familyMasks |-> <<>>, prescriptions |-> <<>>, nRulesOfChange |-> 0,
     familyChangeRules |-> <<>>]

\* the solver as constructed (default member initializers of part_000).
\* threw names the function in which the last call raised its fatal error
\* ("none": the call returned); crashed says that the process has ended.
NewSolver ==
    [sys_initialized |-> FALSE,
     threw |-> "none",
     crashed |-> FALSE,
     \* user settings and caches
     m_ts_size |-> -1,
     m_user_boxSize |-> Float3(-1, -1, -1),
     m_user_add_bounding_box |-> "none",
     m_bounding_box_material |-> NullMaterial,
     m_expand_factor |-> 0,
     m_expand_safety_param |-> 1,
     m_isHistoryless |-> FALSE,
     m_force_model |-> "DEM_HERTZIAN_FORCE_MODEL",
     kT_should_sort |-> TRUE,
     use_compact_sweep_force_strat |-> FALSE,
     explicit_nv_override |-> FALSE,
     l |-> FLT_MAX,
     nvXp2 |-> Uninit, nvYp2 |-> Uninit, nvZp2 |-> Uninit,
     m_voxelSize |-> Uninit,
     m_use_user_instructed_bin_size |-> FALSE,
     m_binSize |-> Uninit,
     m_smallest_radius |-> FLT_MAX,
     nbX |-> Uninit, nbY |-> Uninit, nbZ |-> Uninit,
     m_num_bins |-> Uninit,
     m_loaded_materials |-> <<>>,
     m_templates |-> <<>>,
     cached_input_clump_batches |-> <<>>,
     cached_extern_objs |-> <<>>,
     cached_mesh_objs |-> <<>>,
     m_input_no_contact_pairs |-> <<>>,
     m_input_family_prescription |-> <<>>,
     m_family_change_pairs |-> <<>>,
     m_famnum_change_conditionally |-> FALSE,
     \* families for which Initialize warned that no entity is in them
     warnings |-> {},
     \* counts
     nOwnerClumps |-> 0, nSpheresGM |-> 0, nExtObj |-> 0, nAnalGM |-> 0,
     nTriEntities |-> 0, nTriGM |-> 0, nOwnerBodies |-> 0,
     nDistinctClumpBodyTopologies |-> 0, nDistinctMassProperties |-> 0,
     nDistinctClumpComponents |-> Uninit, nJitifiableClumpTopo |-> Uninit,
     nJitifiableClumpComponents |-> Uninit,
     nMatTuples |-> 0, nDistinctFamilies |-> 0,
     \* flattened arrays
     m_template_clump_mass |-> <<>>,
     m_template_sp_radii |-> <<>>,
     m_template_sp_mat_ids |-> <<>>,
     m_ext_obj_mass |-> <<>>,
     m_anal_types |-> <<>>,
     m_anal_owner |-> <<>>,
     m_anal_materials |-> <<>>,
     m_mesh_obj_mass |-> <<>>,
     m_mesh_facet_materials |-> <<>>,
     m_mesh_facet_owner |-> <<>>,
     m_mesh_facets |-> <<>>,
     m_contact_wildcards |-> {},   \* of the force model the solver holds
     m_owner_wildcards |-> {},
     wildcards |-> {},             \* argument of the last wildcard call
     m_E_proxy |-> <<>>,
     m_input_clump_family |-> <<>>,
     m_input_ext_obj_family |-> <<>>,
     m_input_mesh_obj_family |-> <<>>,
     \* families
     unique_user_families |-> <<>>,
     m_family_user_impl_map |-> <<>>,
     m_family_impl_user_map |-> <<>>,
     m_family_mask_matrix |-> <<>>,
     m_unique_family_prescription |-> <<>>,
     \* what kT and dT were given by the last Initialize that reached them
     kTdT_canFamilyChange |-> FALSE,
     kTdT_isHistoryless |-> FALSE,
     \* solverFlags of kT; not read before the first transferSolverParams
     kT_should_sort_pairs |-> TRUE,
     kT_use_compact_force_kernel |-> FALSE,
     kTdT_expand_factor |-> 0,
     kTdT_counts |-> NoCounts,
     kTdT_family_user_impl_map |-> <<>>,
     kTdT_family_impl_user_map |-> <<>>,
     kTdT_template_clump_mass |-> <<>>,
     kTdT_template_sp_radii |-> <<>>,
     kTdT_template_sp_mat_ids |-> <<>>,
     kTdT_input_ext_obj_family |-> <<>>,
     kTdT_input_mesh_obj_family |-> <<>>,
     \* the family tag of every clump as dT holds it, and what the conditions
     \* of the family-change rules gave for it in the last sweep
     kTdT_familyID |-> <<>>,
     kTdT_shouldMakeChange |-> <<>>,
     kT_granData |-> NoGranData,   \* kT's DEMDataKT: the spheres and the pair list
     jit |-> NoJit]

\* a fatal error raised in function f: the call ends there
Throw(s, f) == [s EXCEPT !.threw = f]
\* the next statement of a call runs only when no error has been raised
Then(s, F(_)) == IF s.threw # "none" \/ s.crashed THEN s ELSE F(s)

\* std::unordered_map::operator[] assignment
MapPut(m, k, v) == [x \in (DOMAIN m) \cup {k} |-> IF x = k THEN v ELSE m[x]]

\* position (0-based) of the first loaded material equal to this_material,
\* or the number of loaded materials when there is none
FindMaterial(loaded_materials, this_material) ==
    IF \E i \in 1..Len(loaded_materials) :
            is_DEM_material_same(loaded_materials[i], this_material)
    THEN (CHOOSE i \in 1..Len(loaded_materials) :
              /\ is_DEM_material_same(loaded_materials[i], this_material)
              /\ \A j \in 1..(i-1) :
                     ~is_DEM_material_same(loaded_materials[j], this_material)) - 1
    ELSE Len(loaded_materials)

\* stash_material_in_templates: the index of the material in the loaded
\* list, the material being appended when it is not there yet
stash_material_in_templates(loaded_materials, this_material) ==
    [index |-> FindMaterial(loaded_materials, this_material),
     loaded_materials |->
        IF FindMaterial(loaded_materials, this_material) = Len(loaded_materials)
        THEN Append(loaded_materials, this_material)
        ELSE loaded_materials]

\* the cached template object a clump of a batch points to
TemplateOf(s, uid) ==
    CHOOSE t \in Range(s.m_templates) : t.uid = uid

\* validateUserInputs without the test of the box
validateUserInputs_NoBoxTest(s) ==
    IF \/ Len(s.m_loaded_materials) = 0
       \/ s.m_ts_size <= 0
       \/ Len(s.m_templates) = 0
    THEN Throw(s, "validateUserInputs")
    ELSE s

\* lines 686-706; ts_size_is_const is true, nothing in the sources sets it
validateUserInputs(s) ==
    IF \/ Len(s.m_loaded_materials) = 0
       \/ s.m_ts_size <= 0
       \/ Len(s.m_templates) = 0
       \/ s.m_user_boxSize.x <= 0 \/ s.m_user_boxSize.y <= 0 \/ s.m_user_boxSize.z <= 0
    THEN Throw(s, "validateUserInputs")
    ELSE s

\* the record SetFamilyFixed pushes for family ID
FixedPrescription(ID) ==
    [family |-> ID, used |-> TRUE, linPos |-> "none", linVel |-> "0", rotVel |-> "0",
     linVelPrescribed |-> TRUE, rotVelPrescribed |-> TRUE,
     rotPosPrescribed |-> TRUE, linPosPrescribed |-> TRUE]

\* a default-constructed familyPrescription_t
NoPrescription ==
    [family |-> -1, used |-> FALSE, linPos |-> "none", linVel |-> "none", rotVel |-> "none",
     linVelPrescribed |-> FALSE, rotVelPrescribed |-> FALSE,
     rotPosPrescribed |-> FALSE, linPosPrescribed |-> FALSE]

\* the records SetFamilyPrescribedLinVel, SetFamilyPrescribedAngVel and
\* SetFamilyPrescribedPosition push; the three components of a velocity or
\* position are one entry here
LinVelPrescription(ID, vel, dictate) ==
    [NoPrescription EXCEPT !.family = ID, !.linVel = vel,
                           !.linVelPrescribed = dictate, !.rotVelPrescribed = dictate,
                           !.used = TRUE]

AngVelPrescription(ID, vel, dictate) ==
    [NoPrescription EXCEPT !.family = ID, !.rotVel = vel,
                           !.linVelPrescribed = dictate, !.rotVelPrescribed = dictate,
                           !.used = TRUE]

PositionPrescription(ID, pos) ==
    [NoPrescription EXCEPT !.family = ID, !.linPos = pos,
                           !.rotPosPrescribed = TRUE, !.linPosPrescribed = TRUE,
                           !.used = TRUE]

SetFamilyFixed_(s, ID) ==
    [s EXCEPT !.m_input_family_prescription = Append(@, FixedPrescription(ID))]

processUserInputs_NoReservedFix(s) ==
    LET clumps == Flatten(MapSeq(s.cached_input_clump_batches, LAMBDA b : b.types))
        fams == Flatten(MapSeq(s.cached_input_clump_batches, LAMBDA b : b.families))
        s1 == [s EXCEPT
                 !.nOwnerClumps = @ + Len(clumps),
                 !.nSpheresGM = @ + SumSeq(MapSeq(clumps, LAMBDA uid : TemplateOf(s, uid).nComp)),
                 !.m_input_clump_family = @ \o fams]
    IN  [s1 EXCEPT !.m_expand_factor = @ * s.m_expand_safety_param]

processUserInputs(s) ==
    LET clumps == Flatten(MapSeq(s.cached_input_clump_batches, LAMBDA b : b.types))
        fams == Flatten(MapSeq(s.cached_input_clump_batches, LAMBDA b : b.families))
        s1 == [s EXCEPT
                 !.nOwnerClumps = @ + Len(clumps),
                 !.nSpheresGM = @ + SumSeq(MapSeq(clumps, LAMBDA uid : TemplateOf(s, uid).nComp)),
                 !.m_input_clump_family = @ \o fams]
        s2 == SetFamilyFixed_(s1, DEM_RESERVED_FAMILY_NUM)
    IN  [s2 EXCEPT !.m_expand_factor = @ * s.m_expand_safety_param]

\* the orders std::sort may leave the templates in: every arrangement of
\* them with nComp ascending (the sort is not stable)
SortOutcomes(templates) ==
    {[i \in 1..Len(templates) |-> templates[p[i]]] :
        p \in {q \in [1..Len(templates) -> 1..Len(templates)] :
                 /\ \A i, j \in 1..Len(templates) : i # j => q[i] # q[j]
                 /\ \A i \in 1..(Len(templates) - 1) :
                       templates[q[i]].nComp <= templates[q[i+1]].nComp}}

\* flatten the templates from position i on
RECURSIVE FlattenTemplates(_, _)
FlattenTemplates(s, i) ==
    IF i > Len(s.m_templates) THEN s
    ELSE LET clump == s.m_templates[i]
             st == stash_material_in_templates(s.m_loaded_materials, clump.material)
         IN  FlattenTemplates(
                 [s EXCEPT
                    !.m_loaded_materials = st.loaded_materials,
                    !.m_template_clump_mass = Append(@, clump.mass),
                    !.m_template_sp_radii = Append(@, [j \in 1..clump.nComp |-> clump.radius]),
                    !.m_template_sp_mat_ids = Append(@, [j \in 1..clump.nComp |-> st.index])],
                 i + 1)

preprocessClumpTemplates(s, sorted) ==
    FlattenTemplates(
        [s EXCEPT !.m_templates = [i \in 1..Len(sorted) |-> [sorted[i] EXCEPT !.mark = i - 1]]],
        1)

\* load the analytical objects from position i on
RECURSIVE LoadAnalyticalObjs(_, _)
LoadAnalyticalObjs(s, i) ==
    IF i > Len(s.cached_extern_objs) THEN s
    ELSE LET ext_obj == s.cached_extern_objs[i]
             n == Len(ext_obj.types)
             st == stash_material_in_templates(s.m_loaded_materials, ext_obj.material)
         IN  LoadAnalyticalObjs(
                 [s EXCEPT
                    !.m_ext_obj_mass = Append(@, ext_obj.mass),
                    !.m_input_ext_obj_family = Append(@, ext_obj.family_code),
                    \* addAnalCompTemplate, once per component
                    !.m_loaded_materials = IF n > 0 THEN st.loaded_materials ELSE @,
                    !.m_anal_types = @ \o ext_obj.types,
                    !.m_anal_materials = @ \o [j \in 1..n |-> st.index],
                    !.m_anal_owner = @ \o [j \in 1..n |-> i - 1],
                    !.nAnalGM = @ + n],
                 i + 1)

preprocessAnalyticalObjs(s) ==
    LoadAnalyticalObjs([s EXCEPT !.nExtObj = @ + Len(s.cached_extern_objs)], 1)

\* float3 arithmetic
Minus(a, b) == Float3(a.x - b.x, a.y - b.y, a.z - b.z)
cross(a, b) == Float3(a.y * b.z - a.z * b.y, a.z * b.x - a.x * b.z, a.x * b.y - a.y * b.x)
dot(a, b) == a.x * b.x + a.y * b.y + a.z * b.z

\* lines 402-419 with the test of 415 turned around
orientFacet_Flipped(mesh_obj, i) ==
    LET tri == mesh_obj.triangles[i + 1]
    IN  IF mesh_obj.use_mesh_normals
          THEN LET normal_i == mesh_obj.face_n_indices[i + 1].x
                   normal == mesh_obj.normals[normal_i + 1]
                   AB == Minus(tri.p2, tri.p1)
                   AC == Minus(tri.p3, tri.p1)
                   cross_product == cross(AB, AC)
               IN  IF dot(cross_product, normal) > 0
                     THEN [tri EXCEPT !.p2 = tri.p3, !.p3 = tri.p2]
                     ELSE tri
          ELSE tri

\* lines 402-419: triangle i of the mesh as it is stored; with mesh normals
\* in use, two vertices are switched when the normal of a right-hand-rule
\* traversal is against the normal given for the first vertex
orientFacet(mesh_obj, i) ==
    LET tri == mesh_obj.triangles[i + 1]
    IN  IF mesh_obj.use_mesh_normals
          THEN LET normal_i == mesh_obj.face_n_indices[i + 1].x
                   normal == mesh_obj.normals[normal_i + 1]
                   AB == Minus(tri.p2, tri.p1)
                   AC == Minus(tri.p3, tri.p1)
                   cross_product == cross(AB, AC)
               IN  IF dot(cross_product, normal) < 0
                     THEN [tri EXCEPT !.p2 = tri.p3, !.p3 = tri.p2]
                     ELSE tri
          ELSE tri

\* load the meshes from position i on
RECURSIVE LoadTriangleObjs(_, _)
LoadTriangleObjs(s, i) ==
    IF i > Len(s.cached_mesh_objs) THEN s
    ELSE LET mesh_obj == s.cached_mesh_objs[i]
             st == stash_material_in_templates(s.m_loaded_materials, mesh_obj.material)
         IN  LoadTriangleObjs(
                 [s EXCEPT
                    !.m_mesh_obj_mass = Append(@, mesh_obj.mass),
                    !.m_input_mesh_obj_family = Append(@, mesh_obj.family_code),
                    !.m_loaded_materials = IF mesh_obj.nTri > 0 THEN st.loaded_materials ELSE @,
                    !.m_mesh_facet_owner = @ \o [j \in 1..mesh_obj.nTri |-> i - 1],
                    !.m_mesh_facet_materials = @ \o [j \in 1..mesh_obj.nTri |-> st.index],
                    !.m_mesh_facets = @ \o [j \in 1..mesh_obj.nTri |-> orientFacet(mesh_obj, j - 1)],
                    !.nTriGM = @ + mesh_obj.nTri],
                 i + 1)

preprocessTriangleObjs(s) ==
    LoadTriangleObjs([s EXCEPT !.nTriEntities = @ + Len(s.cached_mesh_objs)], 1)

figureOutMaterialProxies(s) ==
    [s EXCEPT !.m_E_proxy = s.m_loaded_materials]

PutFamily_FromOne(s, i) ==
    [s EXCEPT
       !.m_family_user_impl_map = MapPut(@, s.unique_user_families[i + 1], i + 1),
       !.m_family_impl_user_map = MapPut(@, i + 1, s.unique_user_families[i + 1])]

\* lines 485-486: the unique family at position i gets internal number i
PutFamily(s, i) ==
    [s EXCEPT
       !.m_family_user_impl_map = MapPut(@, s.unique_user_families[i + 1], i),
       !.m_family_impl_user_map = MapPut(@, i, s.unique_user_families[i + 1])]

\* lines 484-487: the two maps over the sorted unique families
RECURSIVE BuildFamilyMaps(_, _)
BuildFamilyMaps(s, i) ==
    IF i >= s.nDistinctFamilies THEN s
    ELSE BuildFamilyMaps(PutFamily(s, i), i + 1)

\* lines 493-500: the no-contact pairs from position i on
RECURSIVE FillMaskMatrix(_, _)
FillMaskMatrix(s, i) ==
    IF i > Len(s.m_input_no_contact_pairs) THEN s
    ELSE LET a_pair == s.m_input_no_contact_pairs[i]
         IN  IF \/ a_pair.ID1 \notin DOMAIN s.m_family_user_impl_map
                \/ a_pair.ID2 \notin DOMAIN s.m_family_user_impl_map
             THEN Throw(s, "figureOutFamilyMasks")
             ELSE LET posInMat == locateMaskPair(s.m_family_user_impl_map[a_pair.ID1],
                                                 s.m_family_user_impl_map[a_pair.ID2],
                                                 s.nDistinctFamilies)
                  IN  FillMaskMatrix(
                          [s EXCEPT !.m_family_mask_matrix[posInMat + 1] = DEM_PREVENT_CONTACT],
                          i + 1)

\* lines 518-548: one input prescription merged into the record of its family
MergePrescription(this_family_info, preInfo, implFamily) ==
    [family |-> implFamily,
     used |-> TRUE,
     linPos |-> IF preInfo.linPos # "none" THEN preInfo.linPos ELSE this_family_info.linPos,
     linVel |-> IF preInfo.linVel # "none" THEN preInfo.linVel ELSE this_family_info.linVel,
     rotVel |-> IF preInfo.rotVel # "none" THEN preInfo.rotVel ELSE this_family_info.rotVel,
     linVelPrescribed |-> this_family_info.linVelPrescribed \/ preInfo.linVelPrescribed,
     rotVelPrescribed |-> this_family_info.rotVelPrescribed \/ preInfo.rotVelPrescribed,
     rotPosPrescribed |-> this_family_info.rotPosPrescribed \/ preInfo.rotPosPrescribed,
     linPosPrescribed |-> this_family_info.linPosPrescribed \/ preInfo.linPosPrescribed]

\* the record of the family of preInfo takes preInfo in, with no test of
\* whether the family has an internal number
MergeInput_NoSkip(s, preInfo) ==
    IF preInfo.family \notin DOMAIN s.m_family_user_impl_map
    THEN Throw(s, "figureOutFamilyMasks")
    ELSE LET impl == s.m_family_user_impl_map[preInfo.family]
         IN  [s EXCEPT !.m_unique_family_prescription[impl + 1] =
                           MergePrescription(@, preInfo, impl)]

\* lines 507-548: one input prescription.  That of a family without an
\* internal number is passed over, with a warning unless the family is the
\* reserved one
MergeInput(s, preInfo) ==
    IF preInfo.family \notin DOMAIN s.m_family_user_impl_map
    THEN IF preInfo.family # DEM_RESERVED_FAMILY_NUM
         THEN [s EXCEPT !.warnings = @ \cup {preInfo.family}]
         ELSE s
    ELSE LET impl == s.m_family_user_impl_map[preInfo.family]
         IN  [s EXCEPT !.m_unique_family_prescription[impl + 1] =
                           MergePrescription(@, preInfo, impl)]

\* lines 506-556: the input prescriptions from position i on
RECURSIVE FillPrescriptions(_, _)
FillPrescriptions(s, i) ==
    IF i > Len(s.m_input_family_prescription) \/ s.threw # "none" THEN s
    ELSE FillPrescriptions(MergeInput(s, s.m_input_family_prescription[i]), i + 1)

\* std::max_element of an empty vector is its end(); reading through it is
\* undefined: the read (whose value is not used) goes unnoticed or ends the
\* process, as ub says
figureOutFamilyMasks(s, max_element) ==
    LET unique_clump_families ==
            hostUniqueVector(s.m_input_clump_family)
                \o hostUniqueVector(s.m_input_ext_obj_family)
                \o s.unique_user_families
        s1 == [s EXCEPT !.unique_user_families = hostUniqueVector(unique_clump_families)]
        s2 == [s1 EXCEPT !.nDistinctFamilies = Len(s1.unique_user_families)]
        s3 == BuildFamilyMaps(s2, 0)
        s4 == [s3 EXCEPT !.m_family_mask_matrix =
                   Resize(@, ((s3.nDistinctFamilies + 1) * s3.nDistinctFamilies) \div 2,
                          DEM_DONT_PREVENT_CONTACT)]
        s5 == FillMaskMatrix(s4, 1)
        s6 == [s5 EXCEPT !.m_unique_family_prescription =
                   Resize(@, s5.nDistinctFamilies, NoPrescription)]
    IN  IF s1.unique_user_families = <<>> /\ max_element = "crash"
        THEN [s1 EXCEPT !.crashed = TRUE]
        ELSE IF s2.nDistinctFamilies > FamilyMax
        THEN Throw(s2, "figureOutFamilyMasks: families")
        ELSE IF s5.threw # "none" THEN s5 ELSE FillPrescriptions(s6, 1)

\* lines 88-93 of generateJITResources: the derived counts
computeStats(s) ==
    LET s1 == [s EXCEPT !.nDistinctClumpBodyTopologies = Len(s.m_template_clump_mass)]
        s2 == [s1 EXCEPT !.nDistinctMassProperties =
                   s1.nDistinctClumpBodyTopologies + s1.nExtObj + s1.nTriEntities]
    IN  [s2 EXCEPT !.nMatTuples = Len(s2.m_loaded_materials)]

\* line 99 of generateJITResources: the number of owners
deriveOwnerBodies(s) ==
    [s EXCEPT !.nOwnerBodies = s.nExtObj + s.nOwnerClumps + s.nTriEntities]

\* the smallest of a non-empty set of numbers
Smallest(S) == CHOOSE x \in S : \A y \in S : x <= y

\* (binID_t)(m_voxelSize * (double)((size_t)1 << nv) / m_binSize) + 1.  The
\* conversion truncates; of a quotient that binID_t cannot hold (and of the
\* quotient by a bin size that is not positive) it is undefined and gives
\* the low bits or the largest value, as cast says.  The sum is taken in
\* binID_t.
AxisBins(voxelSize, nv, binSize, cast) ==
    LET ofRange == IF cast = "wrap" THEN 0 ELSE BinIdMax
        quotient == (voxelSize * Pow2(nv)) \div binSize
        converted == IF binSize <= 0 THEN ofRange
                     ELSE IF quotient > BinIdMax
                          THEN (IF cast = "wrap" THEN quotient % Pow2(BinIdBits)
                                ELSE BinIdMax)
                          ELSE quotient
    IN  (converted + 1) % Pow2(BinIdBits)

\* lines 299-302 of decideBinSize
countBins(s, ub) ==
    LET world == IF s.m_voxelSize = Uninit
                 THEN ub.world
                 ELSE [m_voxelSize |-> s.m_voxelSize, nvXp2 |-> s.nvXp2,
                       nvYp2 |-> s.nvYp2, nvZp2 |-> s.nvZp2]
        s1 == [s EXCEPT
                 !.nbX = AxisBins(world.m_voxelSize, world.nvXp2, s.m_binSize, ub.cast),
                 !.nbY = AxisBins(world.m_voxelSize, world.nvYp2, s.m_binSize, ub.cast),
                 !.nbZ = AxisBins(world.m_voxelSize, world.nvZp2, s.m_binSize, ub.cast)]
    IN  [s1 EXCEPT !.m_num_bins = (s1.nbX * s1.nbY * s1.nbZ) % SizeModulus]

decideBinSize(s, ub) ==
    LET s1 == [s EXCEPT !.m_smallest_radius =
                   Smallest({@} \cup Range(Flatten(s.m_template_sp_radii)))]
    IN  IF s1.m_smallest_radius > SGPS_DEM_TINY_FLOAT
        THEN IF ~s1.m_use_user_instructed_bin_size
             THEN countBins([s1 EXCEPT !.m_binSize = 2 * s1.m_smallest_radius], ub)
             ELSE countBins(s1, ub)
        ELSE IF ~s1.m_use_user_instructed_bin_size
             THEN Throw(s1, "decideBinSize")
             ELSE countBins(s1, ub)

\* the errors of postJITResourceGenSanityCheck
\* the loop of lines 114-122 from row i on (i counts from 1): the first time
\* the running total passes the threshold, the rows before this one and
\* their total are recorded
RECURSIVE countJitifiable(_, _, _)
countJitifiable(s, i, unable_jitify_all) ==
    IF i > s.nDistinctClumpBodyTopologies THEN [s |-> s, unable_jitify_all |-> unable_jitify_all]
    ELSE LET size == Len(s.m_template_sp_radii[i])
             total == s.nDistinctClumpComponents + size
             s1 == [s EXCEPT !.nDistinctClumpComponents = total]
         IN  IF ~unable_jitify_all /\ total > DEM_THRESHOLD_CANT_JITIFY_ALL_COMP
               THEN countJitifiable([s1 EXCEPT !.nJitifiableClumpTopo = i - 1,
                                               !.nJitifiableClumpComponents = total - size],
                                    i + 1, TRUE)
               ELSE countJitifiable(s1, i + 1, unable_jitify_all)

\* lines 109-134: can all clump templates be jitified?
jitifiableTemplates(s) ==
    LET r == countJitifiable([s EXCEPT !.nDistinctClumpComponents = 0,
                                      !.nJitifiableClumpComponents = 0], 1, FALSE)
    IN  IF r.unable_jitify_all THEN r.s
        ELSE [r.s EXCEPT !.nJitifiableClumpTopo = r.s.nDistinctClumpBodyTopologies,
                         !.nJitifiableClumpComponents = r.s.nDistinctClumpComponents]

postJITResourceGenSanityCheck(s) ==
    LET s1 == jitifiableTemplates(s)
    IN  IF s1.nDistinctMassProperties >= InertiaOffsetMax
        THEN Throw(s1, "postJITResourceGenSanityCheck")
        ELSE IF s1.m_num_bins > BinIdMax
        THEN Throw(s1, "postJITResourceGenSanityCheck")
        ELSE s1

\* the world box is added as one more analytical object on each call
addWorldBoundingBox(s) ==
    IF s.m_user_add_bounding_box \in {"all", "top_open"}
    THEN [s EXCEPT !.cached_extern_objs =
             Append(@, [family_code |-> DEM_RESERVED_FAMILY_NUM,
                        mass |-> 1,
                        material |-> s.m_bounding_box_material,
                        types |-> [j \in 1..(IF s.m_user_add_bounding_box = "all"
                                             THEN NumBoxPlanesAll
                                             ELSE NumBoxPlanesTopOpen) |-> "PLANE"]])]
    ELSE s

generateJITResources(s, sorted, ub) ==
    LET s1 == addWorldBoundingBox(s)
        s2 == preprocessClumpTemplates(s1, sorted)
        s3 == preprocessAnalyticalObjs(s2)
        s4 == preprocessTriangleObjs(s3)
        s5 == figureOutMaterialProxies(s4)
        s6 == figureOutFamilyMasks(s5, ub.max_element)
        s7 == Then(s6, computeStats)
        s8 == Then(s7, LAMBDA x : decideBinSize(x, ub))
        s9 == Then(s8, deriveOwnerBodies)
    IN  Then(s9, postJITResourceGenSanityCheck)

\* transferSolverParams and transferSimParams: what the workers are told
transferParams(s) ==
    [s EXCEPT !.kTdT_isHistoryless = s.m_isHistoryless,
              !.kTdT_canFamilyChange = s.m_famnum_change_conditionally,
              !.kT_should_sort_pairs = s.kT_should_sort,
              !.kT_use_compact_force_kernel = s.use_compact_sweep_force_strat,
              !.kTdT_expand_factor = s.m_expand_factor]

\* allocateManagedArrays and initManagedArrays get the counts, the family
\* maps and the flattened arrays as they are at this point
initializeArrays(s) ==
    [s EXCEPT
       !.kTdT_counts =
           [nOwnerBodies |-> s.nOwnerBodies, nOwnerClumps |-> s.nOwnerClumps,
            nExtObj |-> s.nExtObj, nTriEntities |-> s.nTriEntities,
            nSpheresGM |-> s.nSpheresGM, nTriGM |-> s.nTriGM, nAnalGM |-> s.nAnalGM,
            nDistinctMassProperties |-> s.nDistinctMassProperties,
            nDistinctClumpBodyTopologies |-> s.nDistinctClumpBodyTopologies,
            nMatTuples |-> s.nMatTuples],
       !.kTdT_family_user_impl_map = s.m_family_user_impl_map,
       !.kTdT_family_impl_user_map = s.m_family_impl_user_map,
       !.kTdT_template_clump_mass = s.m_template_clump_mass,
       !.kTdT_template_sp_radii = s.m_template_sp_radii,
       !.kTdT_template_sp_mat_ids = s.m_template_sp_mat_ids,
       !.kTdT_input_ext_obj_family = s.m_input_ext_obj_family,
       !.kTdT_input_mesh_obj_family = s.m_input_mesh_obj_family,
       !.kTdT_familyID = [i \in 1..Len(s.m_input_clump_family) |->
                             s.m_family_user_impl_map[s.m_input_clump_family[i]]],
       !.kTdT_shouldMakeChange = <<>>,
       !.kT_granData =
           LET types == Flatten(MapSeq(s.cached_input_clump_batches, LAMBDA b : b.types))
               fams == Flatten(MapSeq(s.cached_input_clump_batches, LAMBDA b : b.families))
           IN  [xyz |-> Flatten(MapSeq(s.cached_input_clump_batches, LAMBDA b : b.xyz)),
                radius |-> [i \in 1..Len(types) |-> TemplateOf(s, types[i]).radius],
                familyID |-> [i \in 1..Len(fams) |-> s.m_family_user_impl_map[fams[i]]],
                contactPairs |-> {}]]

\* equipAnalGeoTemplates reads nAnalGM entries of each m_anal_ array with at()
equipAnalGeoTemplates_throws(s) ==
    \/ s.nAnalGM > Len(s.m_anal_owner)
    \/ s.nAnalGM > Len(s.m_anal_types)
    \/ s.nAnalGM > Len(s.m_anal_materials)

\* equipFamilyOnFlyChanges looks both families of every rule up with at()
equipFamilyOnFlyChanges_throws(s) ==
    \E i \in 1..Len(s.m_family_change_pairs) :
        \/ s.m_family_change_pairs[i].ID1 \notin DOMAIN s.m_family_user_impl_map
        \/ s.m_family_change_pairs[i].ID2 \notin DOMAIN s.m_family_user_impl_map

\* the substitutions of the equip functions; they reach the kernels of kT
\* and dT only when all of them have been built
jitifyKernels(s) ==
    IF equipAnalGeoTemplates_throws(s) THEN Throw(s, "equipAnalGeoTemplates")
    ELSE IF equipFamilyOnFlyChanges_throws(s) THEN Throw(s, "equipFamilyOnFlyChanges")
    ELSE [s EXCEPT !.jit =
            [nDistinctClumpBodyTopologies |-> s.nDistinctClumpBodyTopologies,
             nAnalGM |-> s.nAnalGM,
             objOwner |-> [i \in 1..s.nAnalGM |-> s.nOwnerClumps + s.m_anal_owner[i]],
             objType |-> SubSeq(s.m_anal_types, 1, s.nAnalGM),
             objMaterial |-> SubSeq(s.m_anal_materials, 1, s.nAnalGM),
             nFamilyMaskEntries |-> Len(s.m_family_mask_matrix),
             familyMasks |-> s.m_family_mask_matrix,
             prescriptions |-> SelectSeq(s.m_unique_family_prescription, LAMBDA p : p.used),
             nRulesOfChange |-> Len(s.m_family_change_pairs),
             familyChangeRules |->
                 [i \in 1..Len(s.m_family_change_pairs) |->
                     <<s.m_family_user_impl_map[s.m_family_change_pairs[i].ID1],
                       s.m_family_user_impl_map[s.m_family_change_pairs[i].ID2]>>]]]

ReleaseFlattenedArrays(s) ==
    [s EXCEPT !.m_input_ext_obj_family = <<>>,
              !.m_input_clump_family = <<>>,
              !.m_family_mask_matrix = <<>>,
              !.m_unique_family_prescription = <<>>,
              !.m_family_user_impl_map = <<>>,
              !.m_family_impl_user_map = <<>>]

\* DEMSolver::Initialize, with the order std::sort leaves the templates in
\* and the outcome of the undefined read as inputs.  An error raised by an
\* earlier call is over when the user calls again.
Initialize_(s, sorted, ub) ==
    LET s0 == [s EXCEPT !.threw = "none"]
        s1 == validateUserInputs(s0)
        s2 == Then(s1, processUserInputs)
        s3 == Then(s2, LAMBDA x : generateJITResources(x, sorted, ub))
        s4 == Then(s3, transferParams)
        s5 == Then(s4, initializeArrays)
        s6 == Then(s5, jitifyKernels)
        s7 == Then(s6, ReleaseFlattenedArrays)
    IN  Then(s7, LAMBDA x : [x EXCEPT !.sys_initialized = TRUE])

ClearCache_(s) ==
    [s EXCEPT !.sys_initialized = FALSE,
              !.threw = "none",
              !.cached_extern_objs = <<>>,
              !.m_anal_types = <<>>,
              !.m_input_ext_obj_family = <<>>,
              !.m_template_clump_mass = <<>>,
              !.m_template_sp_radii = <<>>,
              !.m_template_sp_mat_ids = <<>>,
              !.m_loaded_materials = <<>>,
              !.m_family_mask_matrix = <<>>,
              !.m_family_user_impl_map = <<>>,
              !.m_famnum_change_conditionally = FALSE,
              !.m_family_change_pairs = <<>>,
              !.m_input_family_prescription = <<>>,
              !.m_unique_family_prescription = <<>>]

(***************************************************************************)
(* The calls the user makes on the solver.  Each takes its arguments from  *)
(* the sets it is given.  lastCall is the name of the call made last and   *)
(* initCalls counts the Initialize calls; cleared says that ClearCache     *)
(* was called after the last of them.                                      *)
(***************************************************************************)
UserCall(name, s) ==
    /\ ~sys.crashed
    /\ sys' = s
    /\ lastCall' = name
    /\ initCalls' = initCalls + (IF name = "Initialize" THEN 1 ELSE 0)
    /\ cleared' = IF name = "ClearCache" THEN TRUE
                  ELSE IF name = "Initialize" THEN FALSE ELSE cleared
    /\ UNCHANGED hsVars

\* a call other than Initialize returns; the error of an earlier call is over
Returned(s) == [s EXCEPT !.threw = "none"]

SetTimeStepSize(Sizes) ==
    \E ts_size \in Sizes :
        /\ sys.m_ts_size # ts_size
        /\ UserCall("SetTimeStepSize", [Returned(sys) EXCEPT !.m_ts_size = ts_size])

InstructBoxDomainDimension(Boxes) ==
    \E box \in Boxes :
        /\ sys.m_user_boxSize # box
        /\ UserCall("InstructBoxDomainDimension",
                    [Returned(sys) EXCEPT !.m_user_boxSize = box])

InstructBoxDomainNumVoxel_(s, x, y, z, len_unit) ==
    IF x + y + z # VoxelIdBits
    THEN Throw(s, "InstructBoxDomainNumVoxel")
    ELSE LET voxelSize == Pow2(DEM_VOXEL_RES_POWER2) * len_unit
         IN  [s EXCEPT !.l = len_unit,
                       !.nvXp2 = x, !.nvYp2 = y, !.nvZp2 = z,
                       !.m_voxelSize = voxelSize,
                       !.m_user_boxSize = Float3(voxelSize * Pow2(x), voxelSize * Pow2(y),
                                                 voxelSize * Pow2(z)),
                       !.explicit_nv_override = TRUE]

\* Powers is a set of triples <<x, y, z>>
InstructBoxDomainNumVoxel(Powers, Units) ==
    \E nv \in Powers, len_unit \in Units :
        /\ sys.l # len_unit \/ <<sys.nvXp2, sys.nvYp2, sys.nvZp2>> # nv
        /\ UserCall("InstructBoxDomainNumVoxel",
                    InstructBoxDomainNumVoxel_(Returned(sys), nv[1], nv[2], nv[3], len_unit))

InstructBinSize(Sizes) ==
    \E bin_size \in Sizes :
        /\ ~sys.m_use_user_instructed_bin_size \/ sys.m_binSize # bin_size
        /\ UserCall("InstructBinSize",
                    [Returned(sys) EXCEPT !.m_use_user_instructed_bin_size = TRUE,
                                          !.m_binSize = bin_size])

InstructBoxDomainBoundingBC(Insts) ==
    \E inst \in Insts, mat \in Range(sys.m_loaded_materials) :
        /\ sys.m_user_add_bounding_box # inst
        /\ UserCall("InstructBoxDomainBoundingBC",
                    [Returned(sys) EXCEPT !.m_user_add_bounding_box = inst,
                                          !.m_bounding_box_material = mat])

SetExpandFactor(Betas) ==
    \E beta \in Betas :
        /\ sys.m_expand_factor # beta
        /\ UserCall("SetExpandFactor", [Returned(sys) EXCEPT !.m_expand_factor = beta])

\* SetCDUpdateFreq: m_updateFreq = freq
SetCDUpdateFreq(Freqs) ==
    \E freq \in Freqs :
        /\ m_updateFreq # freq
        /\ ~sys.crashed
        /\ m_updateFreq' = freq
        /\ sys' = Returned(sys)
        /\ lastCall' = "SetCDUpdateFreq"
        /\ UNCHANGED <<initCalls, cleared, flagVars, stampVars, statVars, mutexVars,
                       cvVars, chanVars, startVars, nDynamicCycles, cycle,
                       pcK, pcD, pcM, tagVars, callVars, swapInStep>>

\* SuggestExpandFactor(max_vel): an error without a positive time step or
\* with the update frequency 0, otherwise SuggestExpandFactor(max_vel,
\* m_ts_size * m_updateFreq), which stores the product
SuggestExpandFactor(Vels) ==
    \E max_vel \in Vels :
        /\ lastCall # "SuggestExpandFactor"
        /\ UserCall("SuggestExpandFactor",
                    IF sys.m_ts_size <= 0 \/ m_updateFreq = 0
                      THEN Throw(sys, "SuggestExpandFactor")
                      ELSE [Returned(sys) EXCEPT !.m_expand_factor =
                               max_vel * (sys.m_ts_size * m_updateFreq)])

SetSortContactPairs(Flags) ==
    \E use_sort \in Flags :
        /\ sys.kT_should_sort # use_sort
        /\ UserCall("SetSortContactPairs", [Returned(sys) EXCEPT !.kT_should_sort = use_sort])

\* this method works only if kT sorts the contact arrays first: asking for
\* the compact kernel turns the sorting on, giving it up leaves it as it is
UseCompactForceKernel(Flags) ==
    \E use_compact \in Flags :
        /\ sys.use_compact_sweep_force_strat # use_compact
        /\ UserCall("UseCompactForceKernel",
                    IF use_compact
                      THEN [Returned(sys) EXCEPT !.kT_should_sort = use_compact,
                                                 !.use_compact_sweep_force_strat = use_compact]
                      ELSE [Returned(sys) EXCEPT !.use_compact_sweep_force_strat = use_compact])

\* a name is a sequence of characters; match_pattern(a_str, " ")
match_pattern(a_str, pattern) == \E i \in 1..Len(a_str) : a_str[i] = pattern

\* the assignment made before the names are looked at
SetPerContactWildcards_AssignFirst(s, wildcards) ==
    LET s1 == [s EXCEPT !.m_contact_wildcards = wildcards]
    IN  IF \E a_str \in wildcards : match_pattern(a_str, " ")
          THEN Throw(s1, "SetPerContactWildcards")
          ELSE s1

\* DEMForceModel::SetPerContactWildcards
SetPerContactWildcards_(s, wildcards) ==
    IF \E a_str \in wildcards : match_pattern(a_str, " ")
      THEN Throw(s, "SetPerContactWildcards")
      ELSE [s EXCEPT !.m_contact_wildcards = wildcards]

\* DEMForceModel::SetPerOwnerWildcards
SetPerOwnerWildcards_(s, wildcards) ==
    IF \E a_str \in wildcards : match_pattern(a_str, " ")
      THEN Throw(s, "SetPerOwnerWildcards")
      ELSE [s EXCEPT !.m_owner_wildcards = wildcards]

SetPerContactWildcards(Inputs) ==
    \E wildcards \in Inputs :
        UserCall("SetPerContactWildcards",
                 SetPerContactWildcards_([Returned(sys) EXCEPT !.wildcards = wildcards],
                                         wildcards))

SetPerOwnerWildcards(Inputs) ==
    \E wildcards \in Inputs :
        UserCall("SetPerOwnerWildcards",
                 SetPerOwnerWildcards_([Returned(sys) EXCEPT !.wildcards = wildcards],
                                       wildcards))

SetSolverHistoryless(Flags) ==
    \E useHistoryless \in Flags :
        /\ sys.m_isHistoryless # useHistoryless
        /\ UserCall("SetSolverHistoryless",
                    [Returned(sys) EXCEPT !.m_isHistoryless = useHistoryless])

UseFrictionalHertzianModel ==
    /\ lastCall # "UseFrictionalHertzianModel"
    /\ UserCall("UseFrictionalHertzianModel",
                [Returned(sys) EXCEPT !.m_isHistoryless = FALSE,
                                      !.m_force_model = "DEM_HERTZIAN_FORCE_MODEL"])

UseFrictionlessHertzianModel ==
    /\ lastCall # "UseFrictionlessHertzianModel"
    /\ UserCall("UseFrictionlessHertzianModel",
                [Returned(sys) EXCEPT !.m_isHistoryless = TRUE,
                                      !.m_force_model = "DEM_HERTZIAN_FORCE_MODEL_FRICTIONLESS"])

SuggestExpandSafetyParam(Params) ==
    \E param \in Params :
        /\ sys.m_expand_safety_param # param
        /\ UserCall("SuggestExpandSafetyParam",
                    [Returned(sys) EXCEPT !.m_expand_safety_param = param])

\* the user stops loading when the list holds limit materials
LoadMaterialType(Mats, limit) ==
    \E mat \in Mats :
        /\ Len(sys.m_loaded_materials) < limit
        /\ UserCall("LoadMaterialType",
                    [Returned(sys) EXCEPT !.m_loaded_materials = Append(@, mat)])

\* the template gets the number of templates loaded so far as its mark;
\* uid stands for the identity of the shared object
\* the user stops loading when the list holds limit templates
LoadClumpType(Comps, Radii, limit) ==
    \E nComp \in Comps, radius \in Radii, mat \in Range(sys.m_loaded_materials) :
        /\ Len(sys.m_templates) < limit
        /\ UserCall("LoadClumpType",
                    [Returned(sys) EXCEPT !.m_templates =
                        Append(@, [uid |-> Len(sys.m_templates),
                                   mark |-> Len(sys.m_templates),
                                   nComp |-> nComp,
                                   mass |-> nComp,
                                   radius |-> radius,
                                   material |-> mat])])

Origin == Float3(0, 0, 0)

\* a batch of n clumps of one template, all of one family and at one place
AddClumps(Sizes, Fams, Positions) ==
    \E n \in Sizes, t \in Range(sys.m_templates), f \in Fams, pos \in Positions :
        /\ Len(sys.cached_input_clump_batches) < MaxBatches
        /\ UserCall("AddClumps",
                    [Returned(sys) EXCEPT !.cached_input_clump_batches =
                        Append(@, [types |-> [i \in 1..n |-> t.uid],
                                   families |-> [i \in 1..n |-> f],
                                   xyz |-> [i \in 1..n |-> pos]])])

\* AddExternalObject with one plane added to it
AddBCPlane(Fams) ==
    \E f \in Fams, mat \in Range(sys.m_loaded_materials) :
        /\ Len(sys.cached_extern_objs) < MaxObjs
        /\ UserCall("AddBCPlane",
                    [Returned(sys) EXCEPT !.cached_extern_objs =
                        Append(@, [family_code |-> f, mass |-> 1, material |-> mat,
                                   types |-> <<"PLANE">>])])

\* a mesh of one triangle, read without normals
FlatMesh ==
    [triangles |-> <<[p1 |-> Float3(0, 0, 0), p2 |-> Float3(1, 0, 0), p3 |-> Float3(0, 1, 0)]>>,
     use_mesh_normals |-> FALSE, normals |-> <<>>, face_n_indices |-> <<>>]

AddWavefrontMeshObject(Fams, Meshes) ==
    \E f \in Fams, mat \in Range(sys.m_loaded_materials), mesh \in Meshes :
        /\ Len(sys.cached_mesh_objs) < MaxMeshes
        /\ UserCall("AddWavefrontMeshObject",
                    [Returned(sys) EXCEPT !.cached_mesh_objs =
                        Append(@, [family_code |-> f, mass |-> 1, material |-> mat,
                                   nTri |-> Len(mesh.triangles),
                                   triangles |-> mesh.triangles,
                                   use_mesh_normals |-> mesh.use_mesh_normals,
                                   normals |-> mesh.normals,
                                   face_n_indices |-> mesh.face_n_indices])])

DisableContactBetweenFamilies(Fams1, Fams2) ==
    \E ID1 \in Fams1, ID2 \in Fams2 :
        /\ Len(sys.m_input_no_contact_pairs) < MaxPairs
        /\ UserCall("DisableContactBetweenFamilies",
                    [Returned(sys) EXCEPT !.m_input_no_contact_pairs =
                        Append(@, [ID1 |-> ID1, ID2 |-> ID2])])

\* the user stops when the list of prescriptions is limit long
SetFamilyFixed(Fams, limit) ==
    \E ID \in Fams :
        /\ Len(sys.m_input_family_prescription) < limit
        /\ UserCall("SetFamilyFixed", SetFamilyFixed_(Returned(sys), ID))

SetFamilyPrescribedLinVel(Fams, Vels, limit) ==
    \E ID \in Fams, vel \in Vels, dictate \in BOOLEAN :
        /\ Len(sys.m_input_family_prescription) < limit
        /\ UserCall("SetFamilyPrescribedLinVel",
                    [Returned(sys) EXCEPT !.m_input_family_prescription =
                        Append(@, LinVelPrescription(ID, vel, dictate))])

SetFamilyPrescribedAngVel(Fams, Vels, limit) ==
    \E ID \in Fams, vel \in Vels, dictate \in BOOLEAN :
        /\ Len(sys.m_input_family_prescription) < limit
        /\ UserCall("SetFamilyPrescribedAngVel",
                    [Returned(sys) EXCEPT !.m_input_family_prescription =
                        Append(@, AngVelPrescription(ID, vel, dictate))])

SetFamilyPrescribedPosition(Fams, Positions, limit) ==
    \E ID \in Fams, pos \in Positions :
        /\ Len(sys.m_input_family_prescription) < limit
        /\ UserCall("SetFamilyPrescribedPosition",
                    [Returned(sys) EXCEPT !.m_input_family_prescription =
                        Append(@, PositionPrescription(ID, pos))])

\* the user stops when limit rules are declared
ChangeFamilyWhen(FamsFrom, FamsTo, limit) ==
    \E ID_from \in FamsFrom, ID_to \in FamsTo :
        /\ Len(sys.m_family_change_pairs) < limit
        /\ UserCall("ChangeFamilyWhen",
                    [Returned(sys) EXCEPT !.m_famnum_change_conditionally = TRUE,
                                          !.m_family_change_pairs =
                                              Append(@, [ID1 |-> ID_from, ID2 |-> ID_to])])

\* the text equipFamilyOnFlyChanges generates, run for one clump: the rules
\* from position i on, each an if of its own on family_code, the tag the
\* clump had when the sweep came to it; shouldMakeChange[i] is what the
\* condition of rule i gives
RECURSIVE familyChangeRules(_, _, _, _, _)
familyChangeRules(rules, family_code, familyID, shouldMakeChange, i) ==
    IF i > Len(rules) THEN familyID
    ELSE familyChangeRules(
             rules, family_code,
             IF family_code = rules[i][1] /\ shouldMakeChange[i] THEN rules[i][2] ELSE familyID,
             shouldMakeChange, i + 1)

\* the sweep of a step of dT over all clumps, when the solver was told that
\* families can change
FamilyChangeSweep ==
    /\ sys.sys_initialized /\ sys.threw = "none"
    /\ sys.kTdT_canFamilyChange
    /\ sys.jit.nRulesOfChange > 0
    /\ \E conds \in [1..Len(sys.kTdT_familyID) -> [1..sys.jit.nRulesOfChange -> BOOLEAN]] :
           UserCall("FamilyChangeSweep",
                    [sys EXCEPT
                       !.kTdT_shouldMakeChange = conds,
                       !.kTdT_familyID =
                           [thisClump \in 1..Len(sys.kTdT_familyID) |->
                               familyChangeRules(sys.jit.familyChangeRules,
                                                 sys.kTdT_familyID[thisClump],
                                                 sys.kTdT_familyID[thisClump],
                                                 conds[thisClump], 1)]])

ClearCache ==
    /\ lastCall # "ClearCache"
    /\ UserCall("ClearCache", ClearCache_(sys))

Initialize ==
    /\ initCalls < MaxInits
    /\ \E sorted \in SortOutcomes(sys.m_templates), ub \in UBOutcomes :
           UserCall("Initialize", Initialize_(sys, sorted, ub))

\* State after construction of the solver and kinematicThread::primeDynamic:
\* the pair-list buffer holds the list of the initial state and is fresh.
primeDynamic ==
    /\ dBufTag = 0
    /\ dFresh = TRUE
    /\ nDynamicUpdates = 1

Init ==
    /\ m_updateFreq \in 0..MaxFreq
    /\ dynamicDone = FALSE
    /\ kFresh = FALSE
    /\ primeDynamic
    /\ stampLastUpdateOfDynamic = 0
    /\ currentStampOfDynamic = 0
    /\ nKinematicUpdates = 0
    /\ nTimesDynamicHeldBack = 0
    /\ nTimesKinematicHeldBack = 0
    /\ kinematicCanProceed = "free"
    /\ dynamicCanProceed = "free"
    /\ kinematicOwnedBuffer_AccessCoordination = "free"
    /\ dynamicOwnedBuffer_AccessCoordination = "free"
    /\ cvK = FALSE
    /\ cvD = FALSE
    /\ dtUserCallDone = FALSE
    /\ ktUserCallDone = FALSE
    /\ dtMainCanProceed = "free"
    /\ ktMainCanProceed = "free"
    /\ cvMainD = FALSE
    /\ cvMainK = FALSE
    /\ dStarted = FALSE
    /\ kStarted = FALSE
    /\ nDynamicCycles = 0
    /\ cycle = 0
    /\ pcK = "k_idle"
    /\ pcD = "d_idle"
    /\ pcM = "m_idle"
    /\ kBufTag = 0
    /\ kBufRead = TRUE
    /\ kWorkTag = 0
    /\ kListTag = 0
    /\ dInUseTag = 0
    /\ lastRunTag = -1
    /\ pubInCall = FALSE
    /\ callKind = "none"
    /\ callsMade = 0
    /\ thisCallDuration = 0
    /\ stampAtCall = 0
    /\ swapInStep = 0
    /\ sys = NewSolver /\ lastCall = "none" /\ initCalls = 0
    /\ cleared = FALSE

\* ThreadManager::dynamicShouldWait: dT has moved more than the update
\* frequency past the step at which it last took a pair list.
dynamicShouldWait ==
    /\ m_updateFreq >= 0
    /\ currentStampOfDynamic > stampLastUpdateOfDynamic + m_updateFreq

(***************************************************************************)
(* kT: kinematicThread::operator()                                         *)
(***************************************************************************)
\* the worker sleeps until startThread
kT_Start ==
    /\ pcK = "k_idle"
    /\ kStarted
    /\ kStarted' = FALSE
    /\ pcK' = "k_loop"
    /\ UNCHANGED <<cfgVars, m_updateFreq, swapInStep, flagVars, stampVars, statVars, mutexVars,
                   cvVars, chanVars, dStarted, nDynamicCycles, cycle, pcD,
                   pcM, tagVars, callVars>>

\* while (!dynamicDone)
kT_LoopTest ==
    /\ pcK = "k_loop"
    /\ pcK' = IF dynamicDone THEN "k_exitNotify" ELSE "k_testFresh"
    /\ UNCHANGED <<cfgVars, m_updateFreq, swapInStep, flagVars, stampVars, statVars, mutexVars,
                   cvVars, chanVars, startVars, nDynamicCycles, cycle, pcD,
                   pcM, tagVars, callVars>>

\* if (!kinematicOwned_Cons2ProdBuffer_isFresh) { nTimesKinematicHeldBack++;
\* otherwise the whole block, the copy of the buffer included, is skipped
kT_TestFresh ==
    /\ pcK = "k_testFresh"
    /\ IF ~kFresh
         THEN /\ nTimesKinematicHeldBack' = nTimesKinematicHeldBack + 1
              /\ pcK' = "k_lock"
         ELSE /\ UNCHANGED nTimesKinematicHeldBack
              /\ pcK' = "k_run"
    /\ UNCHANGED <<cfgVars, m_updateFreq, swapInStep, flagVars, stampVars, nDynamicUpdates,
                   nKinematicUpdates, nTimesDynamicHeldBack, mutexVars,
                   cvVars, chanVars, startVars, nDynamicCycles, cycle, pcD,
                   pcM, tagVars, callVars>>

\* std::unique_lock<std::mutex> lock(kinematicCanProceed), also the
\* re-acquisition of the mutex when a notification ends cv wait
kT_Lock ==
    /\ pcK = "k_lock" \/ (pcK = "k_waiting" /\ ~cvK)
    /\ kinematicCanProceed = "free"
    /\ kinematicCanProceed' = "kT"
    /\ pcK' = "k_waitTest"
    /\ UNCHANGED <<cfgVars, m_updateFreq, swapInStep, flagVars, stampVars, statVars,
                   dynamicCanProceed,
                   kinematicOwnedBuffer_AccessCoordination,
                   dynamicOwnedBuffer_AccessCoordination,
                   cvVars, chanVars, startVars, nDynamicCycles, cycle, pcD,
                   pcM, tagVars, callVars>>

\* while (!kinematicOwned_Cons2ProdBuffer_isFresh)
kT_WaitTest ==
    /\ pcK = "k_waitTest"
    /\ pcK' = IF ~kFresh THEN "k_wait" ELSE "k_copyLock"
    /\ UNCHANGED <<cfgVars, m_updateFreq, swapInStep, flagVars, stampVars, statVars, mutexVars,
                   cvVars, chanVars, startVars, nDynamicCycles, cycle, pcD,
                   pcM, tagVars, callVars>>

\* cv_KinematicCanProceed.wait(lock): release the mutex and block
kT_Wait ==
    /\ pcK = "k_wait"
    /\ kinematicCanProceed' = "free"
    /\ cvK' = TRUE
    /\ pcK' = "k_waiting"
    /\ UNCHANGED <<cfgVars, m_updateFreq, swapInStep, flagVars, stampVars, statVars,
                   dynamicCanProceed,
                   kinematicOwnedBuffer_AccessCoordination,
                   dynamicOwnedBuffer_AccessCoordination,
                   cvD, chanVars, startVars, nDynamicCycles, cycle, pcD,
                   pcM, tagVars, callVars>>

\* std::lock_guard<std::mutex> lock(kinematicOwnedBuffer_AccessCoordination)
kT_CopyLock ==
    /\ pcK = "k_copyLock"
    /\ kinematicOwnedBuffer_AccessCoordination = "free"
    /\ kinematicOwnedBuffer_AccessCoordination' = "kT"
    /\ pcK' = "k_copy"
    /\ UNCHANGED <<cfgVars, m_updateFreq, swapInStep, flagVars, stampVars, statVars,
                   kinematicCanProceed, dynamicCanProceed,
                   dynamicOwnedBuffer_AccessCoordination,
                   cvVars, chanVars, startVars, nDynamicCycles, cycle, pcD,
                   pcM, tagVars, callVars>>

\* cudaMemcpy(voxelID, transferBuffer_voxelID); both locks go out of scope
kT_Copy ==
    /\ pcK = "k_copy"
    /\ kWorkTag' = kBufTag
    /\ kBufRead' = TRUE
    /\ kinematicOwnedBuffer_AccessCoordination' = "free"
    /\ kinematicCanProceed' = "free"
    /\ pcK' = "k_run"
    /\ UNCHANGED <<cfgVars, m_updateFreq, swapInStep, flagVars, stampVars, statVars,
                   dynamicCanProceed, dynamicOwnedBuffer_AccessCoordination,
                   cvVars, chanVars, startVars, nDynamicCycles, cycle, pcD,
                   pcM, kBufTag, kListTag, dBufTag, dInUseTag, lastRunTag,
                   callVars>>

\* the contact detection kernel: the thread of every sphere below nSpheresGM
\* runs an empty block, so the data are left as they were
calculateSphereBinOverlap(simParams, granData) == granData

\* the production step: kinematicTestKernel on voxelID; of the broad phase
\* the source has the kernel calculateSphereBinOverlap alone
kT_Run ==
    /\ pcK = "k_run"
    /\ kListTag' = kWorkTag
    /\ lastRunTag' = kWorkTag
    /\ pcK' = "k_clear"
    /\ sys' = [sys EXCEPT !.kT_granData = calculateSphereBinOverlap(sys.kTdT_counts, @)]
    /\ UNCHANGED <<lastCall, initCalls, cleared, m_updateFreq, swapInStep, flagVars, stampVars, statVars, mutexVars,
                   cvVars, chanVars, startVars, nDynamicCycles, cycle, pcD,
                   pcM, kBufTag, kBufRead, kWorkTag, dBufTag, dInUseTag,
                   callVars>>

\* kinematicOwned_Cons2ProdBuffer_isFresh = false
kT_Clear ==
    /\ pcK = "k_clear"
    /\ kFresh' = FALSE
    /\ pcK' = "k_sendLock"
    /\ UNCHANGED <<cfgVars, m_updateFreq, swapInStep, dynamicDone, dFresh, stampVars, statVars,
                   mutexVars, cvVars, chanVars, startVars, nDynamicCycles,
                   cycle, pcD, pcM, tagVars, callVars>>

\* std::lock_guard<std::mutex> lock(dynamicOwnedBuffer_AccessCoordination)
kT_SendLock ==
    /\ pcK = "k_sendLock"
    /\ dynamicOwnedBuffer_AccessCoordination = "free"
    /\ dynamicOwnedBuffer_AccessCoordination' = "kT"
    /\ pcK' = "k_send"
    /\ UNCHANGED <<cfgVars, m_updateFreq, swapInStep, flagVars, stampVars, statVars,
                   kinematicCanProceed, dynamicCanProceed,
                   kinematicOwnedBuffer_AccessCoordination,
                   cvVars, chanVars, startVars, nDynamicCycles, cycle, pcD,
                   pcM, tagVars, callVars>>

\* cudaMemcpy(pDynamicOwnedBuffer_voxelID, voxelID); the lock goes out of scope
kT_Send ==
    /\ pcK = "k_send"
    /\ dBufTag' = kListTag
    /\ dynamicOwnedBuffer_AccessCoordination' = "free"
    /\ pcK' = "k_setFresh"
    /\ UNCHANGED <<cfgVars, m_updateFreq, swapInStep, flagVars, stampVars, statVars,
                   kinematicCanProceed, dynamicCanProceed,
                   kinematicOwnedBuffer_AccessCoordination,
                   cvVars, chanVars, startVars, nDynamicCycles, cycle, pcD,
                   pcM, kBufTag, kBufRead, kWorkTag, kListTag, dInUseTag,
                   lastRunTag, callVars>>

\* dynamicOwned_Prod2ConsBuffer_isFresh = true; nDynamicUpdates++
kT_SetFresh ==
    /\ pcK = "k_setFresh"
    /\ dFresh' = TRUE
    /\ nDynamicUpdates' = nDynamicUpdates + 1
    /\ pcK' = "k_notify"
    /\ UNCHANGED <<cfgVars, m_updateFreq, swapInStep, dynamicDone, kFresh, stampVars,
                   nKinematicUpdates, nTimesDynamicHeldBack,
                   nTimesKinematicHeldBack, mutexVars, cvVars, chanVars,
                   startVars, nDynamicCycles, cycle, pcD, pcM, tagVars,
                   callVars>>

\* cv_DynamicCanProceed.notify_all(), made without holding dynamicCanProceed
kT_Notify ==
    /\ pcK = "k_notify"
    /\ cvD' = FALSE
    /\ pcK' = "k_loop"
    /\ UNCHANGED <<cfgVars, m_updateFreq, swapInStep, flagVars, stampVars, statVars, mutexVars,
                   cvK, chanVars, startVars, nDynamicCycles, cycle, pcD,
                   pcM, tagVars, callVars>>

\* after the loop: "in case the dynamic is hanging in there"
kT_ExitNotify ==
    /\ pcK = "k_exitNotify"
    /\ cvD' = FALSE
    /\ pcK' = "k_report"
    /\ UNCHANGED <<cfgVars, m_updateFreq, swapInStep, flagVars, stampVars, statVars, mutexVars,
                   cvK, chanVars, startVars, nDynamicCycles, cycle, pcD,
                   pcM, tagVars, callVars>>

\* the worker tells the caller that its part of the user call is over
kT_Report ==
    /\ pcK = "k_report"
    /\ ktMainCanProceed = "free"
    /\ ktUserCallDone' = TRUE
    /\ cvMainK' = FALSE
    /\ pcK' = "k_idle"
    /\ UNCHANGED <<cfgVars, m_updateFreq, swapInStep, flagVars, stampVars, statVars, mutexVars,
                   cvVars, dtUserCallDone, dtMainCanProceed,
                   ktMainCanProceed, cvMainD, startVars, nDynamicCycles,
                   cycle, pcD, pcM, tagVars, callVars>>

kT_Next ==
    \/ kT_Start \/ kT_LoopTest \/ kT_TestFresh \/ kT_Lock \/ kT_WaitTest
    \/ kT_Wait \/ kT_CopyLock \/ kT_Copy \/ kT_Run \/ kT_Clear
    \/ kT_SendLock \/ kT_Send \/ kT_SetFresh \/ kT_Notify \/ kT_ExitNotify
    \/ kT_Report

(***************************************************************************)
(* dT: dynamicThread::operator()                                           *)
(***************************************************************************)
\* the worker sleeps until startThread
dT_Start ==
    /\ pcD = "d_idle"
    /\ dStarted
    /\ dStarted' = FALSE
    /\ pcD' = "d_forInit"
    /\ UNCHANGED <<cfgVars, m_updateFreq, swapInStep, flagVars, stampVars, statVars, mutexVars,
                   cvVars, chanVars, kStarted, nDynamicCycles, cycle, pcK,
                   pcM, tagVars, callVars>>

\* for (int cycle = 0; ...
dT_ForInit ==
    /\ pcD = "d_forInit"
    /\ cycle' = 0
    /\ pcD' = "d_for"
    /\ UNCHANGED <<cfgVars, m_updateFreq, swapInStep, flagVars, stampVars, statVars, mutexVars,
                   cvVars, chanVars, startVars, nDynamicCycles, pcK, pcM,
                   tagVars, callVars>>

\* cycle < nDynamicCycles
dT_ForTest ==
    /\ pcD = "d_for"
    /\ pcD' = IF cycle < nDynamicCycles THEN "d_testFresh" ELSE "d_report"
    /\ UNCHANGED <<cfgVars, m_updateFreq, swapInStep, flagVars, stampVars, statVars, mutexVars,
                   cvVars, chanVars, startVars, nDynamicCycles, cycle, pcK,
                   pcM, tagVars, callVars>>

\* if (dynamicOwned_Prod2ConsBuffer_isFresh)
dT_TestFresh ==
    /\ pcD = "d_testFresh"
    /\ pcD' = IF dFresh THEN "d_swapLock" ELSE "d_lastCheck"
    /\ UNCHANGED <<cfgVars, m_updateFreq, swapInStep, flagVars, stampVars, statVars, mutexVars,
                   cvVars, chanVars, startVars, nDynamicCycles, cycle, pcK,
                   pcM, tagVars, callVars>>

\* std::lock_guard<std::mutex> lock(dynamicOwnedBuffer_AccessCoordination)
dT_SwapLock ==
    /\ pcD = "d_swapLock"
    /\ dynamicOwnedBuffer_AccessCoordination = "free"
    /\ dynamicOwnedBuffer_AccessCoordination' = "dT"
    /\ pcD' = "d_swap"
    /\ UNCHANGED <<cfgVars, m_updateFreq, swapInStep, flagVars, stampVars, statVars,
                   kinematicCanProceed, dynamicCanProceed,
                   kinematicOwnedBuffer_AccessCoordination,
                   cvVars, chanVars, startVars, nDynamicCycles, cycle, pcK,
                   pcM, tagVars, callVars>>

\* dT_Swap as an exchange of the two buffers instead of a copy: the list that
\* was in use goes back into the transfer buffer
dT_Swap_Exchange ==
    /\ pcD = "d_swap"
    /\ dInUseTag' = dBufTag
    /\ swapInStep' = currentStampOfDynamic
    /\ dBufTag' = dInUseTag
    /\ dynamicOwnedBuffer_AccessCoordination' = "free"
    /\ pcD' = "d_clearFresh"
    /\ UNCHANGED <<cfgVars, m_updateFreq, flagVars, stampVars, statVars,
                   kinematicCanProceed, dynamicCanProceed,
                   kinematicOwnedBuffer_AccessCoordination,
                   cvVars, chanVars, startVars, nDynamicCycles, cycle, pcK,
                   pcM, kBufTag, kBufRead, kWorkTag, kListTag,
                   lastRunTag, callVars>>

\* cudaMemcpy(voxelID, transferBuffer_voxelID); the lock goes out of scope
dT_Swap ==
    /\ pcD = "d_swap"
    /\ dInUseTag' = dBufTag
    /\ swapInStep' = currentStampOfDynamic
    /\ dynamicOwnedBuffer_AccessCoordination' = "free"
    /\ pcD' = "d_clearFresh"
    /\ UNCHANGED <<cfgVars, m_updateFreq, flagVars, stampVars, statVars,
                   kinematicCanProceed, dynamicCanProceed,
                   kinematicOwnedBuffer_AccessCoordination,
                   cvVars, chanVars, startVars, nDynamicCycles, cycle, pcK,
                   pcM, kBufTag, kBufRead, kWorkTag, kListTag, dBufTag,
                   lastRunTag, callVars>>

\* dynamicOwned_Prod2ConsBuffer_isFresh = false;
\* stampLastUpdateOfDynamic = cycle
dT_ClearFresh ==
    /\ pcD = "d_clearFresh"
    /\ dFresh' = FALSE
    /\ stampLastUpdateOfDynamic' = cycle
    /\ pcD' = "d_lastCheck"
    /\ UNCHANGED <<cfgVars, m_updateFreq, swapInStep, dynamicDone, kFresh, currentStampOfDynamic,
                   statVars, mutexVars, cvVars, chanVars, startVars,
                   nDynamicCycles, cycle, pcK, pcM, tagVars, callVars>>

\* if (cycle == (nDynamicCycles - 1)) dynamicDone = true
dT_LastCheck ==
    /\ pcD = "d_lastCheck"
    /\ dynamicDone' = IF cycle = nDynamicCycles - 1 THEN TRUE ELSE dynamicDone
    /\ pcD' = "d_testK"
    /\ UNCHANGED <<cfgVars, m_updateFreq, swapInStep, kFresh, dFresh, stampVars, statVars,
                   mutexVars, cvVars, chanVars, startVars, nDynamicCycles,
                   cycle, pcK, pcM, tagVars, callVars>>

\* if (!kinematicOwned_Cons2ProdBuffer_isFresh)
dT_TestK ==
    /\ pcD = "d_testK"
    /\ pcD' = IF ~kFresh THEN "d_pubLock" ELSE "d_work"
    /\ UNCHANGED <<cfgVars, m_updateFreq, swapInStep, flagVars, stampVars, statVars, mutexVars,
                   cvVars, chanVars, startVars, nDynamicCycles, cycle, pcK,
                   pcM, tagVars, callVars>>

\* std::lock_guard<std::mutex> lock(kinematicOwnedBuffer_AccessCoordination)
dT_PubLock ==
    /\ pcD = "d_pubLock"
    /\ kinematicOwnedBuffer_AccessCoordination = "free"
    /\ kinematicOwnedBuffer_AccessCoordination' = "dT"
    /\ pcD' = "d_pub"
    /\ UNCHANGED <<cfgVars, m_updateFreq, swapInStep, flagVars, stampVars, statVars,
                   kinematicCanProceed, dynamicCanProceed,
                   dynamicOwnedBuffer_AccessCoordination,
                   cvVars, chanVars, startVars, nDynamicCycles, cycle, pcK,
                   pcM, tagVars, callVars>>

\* cudaMemcpy(pKinematicOwnedBuffer_voxelID, voxelID): the state of the
\* current step; the lock goes out of scope
dT_Pub ==
    /\ pcD = "d_pub"
    /\ kBufTag' = currentStampOfDynamic
    /\ kBufRead' = FALSE
    /\ pubInCall' = TRUE
    /\ kinematicOwnedBuffer_AccessCoordination' = "free"
    /\ pcD' = "d_setK"
    /\ UNCHANGED <<cfgVars, m_updateFreq, swapInStep, flagVars, stampVars, statVars,
                   kinematicCanProceed, dynamicCanProceed,
                   dynamicOwnedBuffer_AccessCoordination,
                   cvVars, chanVars, startVars, nDynamicCycles, cycle, pcK,
                   pcM, kWorkTag, kListTag, dBufTag, dInUseTag, lastRunTag,
                   callKind, callsMade, thisCallDuration, stampAtCall>>

\* kinematicOwned_Cons2ProdBuffer_isFresh = true; nKinematicUpdates++
dT_SetK ==
    /\ pcD = "d_setK"
    /\ kFresh' = TRUE
    /\ nKinematicUpdates' = nKinematicUpdates + 1
    /\ pcD' = "d_notifyK"
    /\ UNCHANGED <<cfgVars, m_updateFreq, swapInStep, dynamicDone, dFresh, stampVars,
                   nDynamicUpdates, nTimesDynamicHeldBack,
                   nTimesKinematicHeldBack, mutexVars, cvVars, chanVars,
                   startVars, nDynamicCycles, cycle, pcK, pcM, tagVars,
                   callVars>>

\* cv_KinematicCanProceed.notify_all(), made without holding
\* kinematicCanProceed
dT_NotifyK ==
    /\ pcD = "d_notifyK"
    /\ cvK' = FALSE
    /\ pcD' = "d_work"
    /\ UNCHANGED <<cfgVars, m_updateFreq, swapInStep, flagVars, stampVars, statVars, mutexVars,
                   cvD, chanVars, startVars, nDynamicCycles, cycle, pcK,
                   pcM, tagVars, callVars>>

\* the work of the cycle with the pair list in use, then
\* currentStampOfDynamic++
dT_Work ==
    /\ pcD = "d_work"
    /\ currentStampOfDynamic' = currentStampOfDynamic + 1
    /\ pcD' = "d_shouldWait"
    /\ UNCHANGED <<cfgVars, m_updateFreq, swapInStep, flagVars, stampLastUpdateOfDynamic,
                   statVars, mutexVars, cvVars, chanVars, startVars,
                   nDynamicCycles, cycle, pcK, pcM, tagVars, callVars>>

\* if (dynamicShouldWait()) { nTimesDynamicHeldBack++; ... } ; cycle++
dT_ShouldWait ==
    /\ pcD = "d_shouldWait"
    /\ IF dynamicShouldWait
         THEN /\ nTimesDynamicHeldBack' = nTimesDynamicHeldBack + 1
              /\ pcD' = "d_lock"
              /\ UNCHANGED cycle
         ELSE /\ UNCHANGED nTimesDynamicHeldBack
              /\ cycle' = cycle + 1
              /\ pcD' = "d_for"
    /\ UNCHANGED <<cfgVars, m_updateFreq, swapInStep, flagVars, stampVars, nDynamicUpdates,
                   nKinematicUpdates, nTimesKinematicHeldBack, mutexVars,
                   cvVars, chanVars, startVars, nDynamicCycles, pcK, pcM,
                   tagVars, callVars>>

\* std::unique_lock<std::mutex> lock(dynamicCanProceed), also the
\* re-acquisition of the mutex when a notification ends cv wait
dT_Lock ==
    /\ pcD = "d_lock" \/ (pcD = "d_waiting" /\ ~cvD)
    /\ dynamicCanProceed = "free"
    /\ dynamicCanProceed' = "dT"
    /\ pcD' = "d_waitTest"
    /\ UNCHANGED <<cfgVars, m_updateFreq, swapInStep, flagVars, stampVars, statVars,
                   kinematicCanProceed,
                   kinematicOwnedBuffer_AccessCoordination,
                   dynamicOwnedBuffer_AccessCoordination,
                   cvVars, chanVars, startVars, nDynamicCycles, cycle, pcK,
                   pcM, tagVars, callVars>>

\* while (!dynamicOwned_Prod2ConsBuffer_isFresh); when the loop ends the lock
\* goes out of scope and the next cycle begins
dT_WaitTest ==
    /\ pcD = "d_waitTest"
    /\ IF ~dFresh
         THEN /\ pcD' = "d_wait"
              /\ UNCHANGED <<dynamicCanProceed, cycle>>
         ELSE /\ dynamicCanProceed' = "free"
              /\ cycle' = cycle + 1
              /\ pcD' = "d_for"
    /\ UNCHANGED <<cfgVars, m_updateFreq, swapInStep, flagVars, stampVars, statVars,
                   kinematicCanProceed,
                   kinematicOwnedBuffer_AccessCoordination,
                   dynamicOwnedBuffer_AccessCoordination,
                   cvVars, chanVars, startVars, nDynamicCycles, pcK, pcM,
                   tagVars, callVars>>

\* cv_DynamicCanProceed.wait(lock): release the mutex and block
dT_Wait ==
    /\ pcD = "d_wait"
    /\ dynamicCanProceed' = "free"
    /\ cvD' = TRUE
    /\ pcD' = "d_waiting"
    /\ UNCHANGED <<cfgVars, m_updateFreq, swapInStep, flagVars, stampVars, statVars,
                   kinematicCanProceed,
                   kinematicOwnedBuffer_AccessCoordination,
                   dynamicOwnedBuffer_AccessCoordination,
                   cvK, chanVars, startVars, nDynamicCycles, cycle, pcK,
                   pcM, tagVars, callVars>>

\* the worker tells the caller that the user call is over
dT_Report ==
    /\ pcD = "d_report"
    /\ dtMainCanProceed = "free"
    /\ dtUserCallDone' = TRUE
    /\ cvMainD' = FALSE
    /\ pcD' = "d_idle"
    /\ UNCHANGED <<cfgVars, m_updateFreq, swapInStep, flagVars, stampVars, statVars, mutexVars,
                   cvVars, ktUserCallDone, dtMainCanProceed,
                   ktMainCanProceed, cvMainK, startVars, nDynamicCycles,
                   cycle, pcK, pcM, tagVars, callVars>>

dT_Next ==
    \/ dT_Start \/ dT_ForInit \/ dT_ForTest \/ dT_TestFresh \/ dT_SwapLock \/ dT_Swap
    \/ dT_ClearFresh \/ dT_LastCheck \/ dT_TestK \/ dT_PubLock \/ dT_Pub
    \/ dT_SetK \/ dT_NotifyK \/ dT_Work \/ dT_ShouldWait \/ dT_Lock
    \/ dT_WaitTest \/ dT_Wait \/ dT_Report

\* std::condition_variable::wait may return without a notification
SpuriousWakeup ==
    /\ \/ /\ pcK = "k_waiting" /\ cvK
          /\ cvK' = FALSE /\ UNCHANGED cvD
       \/ /\ pcD = "d_waiting" /\ cvD
          /\ cvD' = FALSE /\ UNCHANGED cvK
    /\ UNCHANGED <<cfgVars, m_updateFreq, swapInStep, flagVars, stampVars, statVars, mutexVars,
                   chanVars, startVars, nDynamicCycles, cycle, pcK, pcD,
                   pcM, tagVars, callVars>>

(***************************************************************************)
(* The caller: DEMSolver::DoDynamics, DoDynamicsThenSync,                  *)
(* ResetWorkerThreads                                                      *)
(***************************************************************************)
\* std::round: to the nearest whole number, halves away from zero
round(num, den) ==
    LET q == (2 * Abs(num) + Abs(den)) \div (2 * Abs(den))
    IN  IF (num < 0) = (den < 0) THEN q ELSE -q

\* DEMSolver::computeDTCycles: (size_t)std::round(thisCallDuration /
\* m_ts_size).  The quotient by a zero step is not a number and a negative
\* value is outside size_t: the cast is then undefined and yields ub.
computeDTCycles(s, thisDuration, ub) ==
    IF s.m_ts_size = 0 THEN ub
    ELSE IF round(thisDuration, s.m_ts_size) < 0 THEN ub
    ELSE round(thisDuration, s.m_ts_size)

\* DoDynamics from dT->setNDynamicCycles(nDTIters) on, nDTIters being what
\* computeDTCycles made of the duration; kind is "async" for DoDynamics and
\* "sync" for DoDynamicsThenSync
RunCall(kind, duration, nDTIters) ==
    /\ pcM = "m_idle"
    /\ callsMade < MaxCalls
    /\ nDynamicCycles' = nDTIters
    /\ callKind' = kind
    /\ pubInCall' = FALSE
    /\ thisCallDuration' = duration
    /\ stampAtCall' = currentStampOfDynamic
    /\ pcM' = "m_startD"
    /\ UNCHANGED <<cfgVars, m_updateFreq, swapInStep, flagVars, stampVars, statVars, mutexVars,
                   cvVars, chanVars, startVars, cycle, pcK, pcD, tagVars,
                   callsMade>>

\* a run call of the duration of n time steps
Call(kind, n) == RunCall(kind, n * sys.m_ts_size, n)

DoDynamics == \E n \in 0..MaxCycles : Call("async", n)

DoDynamicsThenSync == \E n \in 0..MaxCycles : Call("sync", n)

\* DoDynamics(thisCallDuration) for a duration of the user's choice with the
\* time step the solver has; the count is capped at MaxCycles
DoDynamicsFor(Durations) ==
    \E duration \in Durations, ub \in 0..MaxCycles :
        /\ computeDTCycles(sys, duration, ub) <= MaxCycles
        /\ RunCall("async", duration, computeDTCycles(sys, duration, ub))

\* dT->startThread()
Main_StartD ==
    /\ pcM = "m_startD"
    /\ dStarted' = TRUE
    /\ pcM' = "m_startK"
    /\ UNCHANGED <<cfgVars, m_updateFreq, swapInStep, flagVars, stampVars, statVars, mutexVars,
                   cvVars, chanVars, kStarted, nDynamicCycles, cycle, pcK,
                   pcD, tagVars, callVars>>

\* kT->startThread()
Main_StartK ==
    /\ pcM = "m_startK"
    /\ kStarted' = TRUE
    /\ pcM' = "m_lockD"
    /\ UNCHANGED <<cfgVars, m_updateFreq, swapInStep, flagVars, stampVars, statVars, mutexVars,
                   cvVars, chanVars, dStarted, nDynamicCycles, cycle, pcK,
                   pcD, tagVars, callVars>>

\* std::unique_lock<std::mutex> lock(dTMain_InteractionManager->mainCanProceed),
\* also the re-acquisition of the mutex when a notification ends cv wait
Main_LockD ==
    /\ pcM = "m_lockD" \/ (pcM = "m_waitingD" /\ ~cvMainD)
    /\ dtMainCanProceed = "free"
    /\ dtMainCanProceed' = "main"
    /\ pcM' = "m_testD"
    /\ UNCHANGED <<cfgVars, m_updateFreq, swapInStep, flagVars, stampVars, statVars, mutexVars,
                   cvVars, dtUserCallDone, ktUserCallDone, ktMainCanProceed,
                   cvMainD, cvMainK, startVars, nDynamicCycles, cycle, pcK,
                   pcD, tagVars, callVars>>

\* while (!dTMain_InteractionManager->userCallDone)
Main_TestD ==
    /\ pcM = "m_testD"
    /\ pcM' = IF ~dtUserCallDone THEN "m_waitD" ELSE "m_resetD"
    /\ UNCHANGED <<cfgVars, m_updateFreq, swapInStep, flagVars, stampVars, statVars, mutexVars,
                   cvVars, chanVars, startVars, nDynamicCycles, cycle, pcK,
                   pcD, tagVars, callVars>>

\* cv_mainCanProceed.wait(lock) on dT's channel
Main_WaitD ==
    /\ pcM = "m_waitD"
    /\ dtMainCanProceed' = "free"
    /\ cvMainD' = TRUE
    /\ pcM' = "m_waitingD"
    /\ UNCHANGED <<cfgVars, m_updateFreq, swapInStep, flagVars, stampVars, statVars, mutexVars,
                   cvVars, dtUserCallDone, ktUserCallDone, ktMainCanProceed,
                   cvMainK, startVars, nDynamicCycles, cycle, pcK, pcD,
                   tagVars, callVars>>

\* dTMain_InteractionManager->userCallDone = false; DoDynamics returns, and
\* DoDynamicsThenSync goes on with ResetWorkerThreads
Main_ResetD ==
    /\ pcM = "m_resetD"
    /\ dtUserCallDone' = FALSE
    /\ dtMainCanProceed' = "free"
    /\ pcM' = IF callKind = "sync" THEN "r_lock" ELSE "m_ret"
    /\ UNCHANGED <<cfgVars, m_updateFreq, swapInStep, flagVars, stampVars, statVars, mutexVars,
                   cvVars, ktUserCallDone, ktMainCanProceed, cvMainD,
                   cvMainK, startVars, nDynamicCycles, cycle, pcK, pcD,
                   tagVars, callVars>>

\* std::unique_lock<std::mutex> lock(kTMain_InteractionManager->mainCanProceed),
\* also the re-acquisition of the mutex when a notification ends cv wait
Reset_Lock ==
    /\ pcM = "r_lock" \/ (pcM = "r_waitingK" /\ ~cvMainK)
    /\ ktMainCanProceed = "free"
    /\ ktMainCanProceed' = "main"
    /\ pcM' = IF pcM = "r_lock" THEN "r_break" ELSE "r_testK"
    /\ UNCHANGED <<cfgVars, m_updateFreq, swapInStep, flagVars, stampVars, statVars, mutexVars,
                   cvVars, dtUserCallDone, ktUserCallDone, dtMainCanProceed,
                   cvMainD, cvMainK, startVars, nDynamicCycles, cycle, pcK,
                   pcD, tagVars, callVars>>

\* kT->breakWaitingStatus(): end kT's loop and make its wait predicate true
breakWaitingStatus ==
    /\ pcM = "r_break"
    /\ dynamicDone' = TRUE
    /\ kFresh' = TRUE
    /\ pcM' = "r_breakNotify"
    /\ UNCHANGED <<cfgVars, m_updateFreq, swapInStep, dFresh, stampVars, statVars, mutexVars,
                   cvVars, chanVars, startVars, nDynamicCycles, cycle, pcK,
                   pcD, tagVars, callVars>>

\* kT->breakWaitingStatus(): notify kT while holding kinematicCanProceed
breakWaitingNotify ==
    /\ pcM = "r_breakNotify"
    /\ kinematicCanProceed = "free"
    /\ cvK' = FALSE
    /\ pcM' = "r_testK"
    /\ UNCHANGED <<cfgVars, m_updateFreq, swapInStep, flagVars, stampVars, statVars, mutexVars,
                   cvD, chanVars, startVars, nDynamicCycles, cycle, pcK,
                   pcD, tagVars, callVars>>

\* while (!kTMain_InteractionManager->userCallDone)
Reset_TestK ==
    /\ pcM = "r_testK"
    /\ pcM' = IF ~ktUserCallDone THEN "r_waitK" ELSE "r_resetK"
    /\ UNCHANGED <<cfgVars, m_updateFreq, swapInStep, flagVars, stampVars, statVars, mutexVars,
                   cvVars, chanVars, startVars, nDynamicCycles, cycle, pcK,
                   pcD, tagVars, callVars>>

\* cv_mainCanProceed.wait(lock) on kT's channel
Reset_WaitK ==
    /\ pcM = "r_waitK"
    /\ ktMainCanProceed' = "free"
    /\ cvMainK' = TRUE
    /\ pcM' = "r_waitingK"
    /\ UNCHANGED <<cfgVars, m_updateFreq, swapInStep, flagVars, stampVars, statVars, mutexVars,
                   cvVars, dtUserCallDone, ktUserCallDone, dtMainCanProceed,
                   cvMainD, startVars, nDynamicCycles, cycle, pcK, pcD,
                   tagVars, callVars>>

\* kTMain_InteractionManager->userCallDone = false
Reset_ResetK ==
    /\ pcM = "r_resetK"
    /\ ktUserCallDone' = FALSE
    /\ pcM' = "r_resetStat"
    /\ UNCHANGED <<cfgVars, m_updateFreq, swapInStep, flagVars, stampVars, statVars, mutexVars,
                   cvVars, dtUserCallDone, dtMainCanProceed,
                   ktMainCanProceed, cvMainD, cvMainK, startVars,
                   nDynamicCycles, cycle, pcK, pcD, tagVars, callVars>>

\* resetUserCallStat that also zeroes the collaboration statistics
resetUserCallStat_ClearStats ==
    /\ pcM = "r_resetStat"
    /\ dynamicDone' = FALSE
    /\ kFresh' = FALSE
    /\ dFresh' = FALSE
    /\ nDynamicUpdates' = 0
    /\ nKinematicUpdates' = 0
    /\ nTimesDynamicHeldBack' = 0
    /\ nTimesKinematicHeldBack' = 0
    /\ ktMainCanProceed' = "free"
    /\ pcM' = "m_ret"
    /\ UNCHANGED <<cfgVars, m_updateFreq, swapInStep, stampVars, mutexVars,
                   cvVars, dtUserCallDone, ktUserCallDone, dtMainCanProceed,
                   cvMainD, cvMainK, startVars, nDynamicCycles, cycle, pcK,
                   pcD, tagVars, callVars>>

\* kT->resetUserCallStat(); dT->resetUserCallStat(): the per-call flags are
\* reset and both buffers drained; the step counters and the collaboration
\* statistics are kept.  ResetWorkerThreads returns (its lock goes out of
\* scope).
resetUserCallStat ==
    /\ pcM = "r_resetStat"
    /\ dynamicDone' = FALSE
    /\ kFresh' = FALSE
    /\ dFresh' = FALSE
    /\ ktMainCanProceed' = "free"
    /\ pcM' = "m_ret"
    /\ UNCHANGED <<cfgVars, m_updateFreq, swapInStep, stampVars, statVars, mutexVars, cvVars,
                   dtUserCallDone, ktUserCallDone, dtMainCanProceed,
                   cvMainD, cvMainK, startVars, nDynamicCycles, cycle, pcK,
                   pcD, tagVars, callVars>>

\* the call has returned to the user
Main_Return ==
    /\ pcM = "m_ret"
    /\ callsMade' = callsMade + 1
    /\ pcM' = "m_idle"
    /\ UNCHANGED <<cfgVars, m_updateFreq, swapInStep, flagVars, stampVars, statVars, mutexVars,
                   cvVars, chanVars, startVars, nDynamicCycles, cycle, pcK,
                   pcD, tagVars, pubInCall, callKind, thisCallDuration,
                   stampAtCall>>

\* DEMSolver::ClearThreadCollaborationStats, called between two run calls
\* (the workers may still be busy)
ClearThreadCollaborationStats ==
    /\ pcM = "m_idle"
    /\ callsMade < MaxCalls
    /\ callsMade' = callsMade + 1
    /\ nDynamicUpdates' = 0
    /\ nKinematicUpdates' = 0
    /\ nTimesDynamicHeldBack' = 0
    /\ nTimesKinematicHeldBack' = 0
    /\ UNCHANGED <<cfgVars, m_updateFreq, swapInStep, flagVars, stampVars,
                   mutexVars, cvVars, chanVars, startVars, nDynamicCycles,
                   cycle, pcK, pcD, pcM, tagVars, pubInCall, callKind,
                   thisCallDuration, stampAtCall>>

Main_Next ==
    \/ Main_StartD \/ Main_StartK \/ Main_LockD \/ Main_TestD \/ Main_WaitD
    \/ Main_ResetD \/ Reset_Lock \/ breakWaitingStatus
    \/ breakWaitingNotify \/ Reset_TestK \/ Reset_WaitK
    \/ Reset_ResetK \/ resetUserCallStat \/ Main_Return

Next ==
    \/ DoDynamics
    \/ DoDynamicsThenSync
    \/ ClearThreadCollaborationStats
    \/ Main_Next
    \/ kT_Next
    \/ dT_Next
    \/ SpuriousWakeup

Spec == Init /\ [][Next]_vars

\* The threads are scheduled fairly: a thread that can take a step takes one.
\* A spurious wakeup is never guaranteed, nor is a further call of the user.
FairSpec ==
    /\ Spec
    /\ WF_vars(kT_Next)
    /\ WF_vars(dT_Next)
    /\ WF_vars(Main_Next)

(***************************************************************************)
(* Configuration runs: the user sets the solver up, initializes it, adds   *)
(* to it or clears it, and initializes again.  CountSpec draws the calls   *)
(* that bring owners, spheres, templates and planes, MaskSpec the calls    *)
(* that shape the contact mask, FamilySpec the calls that name families.   *)
(***************************************************************************)
\* the solver as constructed: m_updateFreq has its default
ConfigInit == Init /\ m_updateFreq = 0

\* voxel powers that add up to the width of voxelID_t
SmallWorld == <<VoxelIdBits - 2, 1, 1>>

CountNext ==
    \/ SetTimeStepSize({1})
    \/ InstructBoxDomainNumVoxel({SmallWorld}, {1})
    \/ InstructBoxDomainBoundingBC({"all"})
    \/ SetExpandFactor({1})
    \/ SuggestExpandSafetyParam({2})
    \/ LoadMaterialType(Materials, MaxMaterials)
    \/ LoadClumpType(1..MaxComp, {UnitRadius}, MaxTemplates)
    \/ AddClumps({MaxClumps}, {0}, {Origin})
    \/ AddBCPlane({DEM_RESERVED_FAMILY_NUM})
    \/ AddWavefrontMeshObject({DEM_RESERVED_FAMILY_NUM}, {FlatMesh})
    \/ ClearCache
    \/ Initialize

CountSpec == ConfigInit /\ [][CountNext]_vars

MaskNext ==
    \/ SetTimeStepSize({1})
    \/ InstructBoxDomainNumVoxel({SmallWorld}, {1})
    \/ LoadMaterialType(Materials, MaxMaterials)
    \/ LoadClumpType({1}, {UnitRadius}, MaxTemplates)
    \/ AddClumps({1}, UserFamilies, {Origin})
    \/ DisableContactBetweenFamilies(UserFamilies, UserFamilies)
    \/ Initialize

MaskSpec == ConfigInit /\ [][MaskNext]_vars

FamilyNext ==
    \/ SetTimeStepSize({1})
    \/ InstructBoxDomainNumVoxel({SmallWorld}, {1})
    \/ LoadMaterialType(Materials, MaxMaterials)
    \/ LoadClumpType({1}, {UnitRadius}, MaxTemplates)
    \/ AddClumps({1}, UserFamilies, {Origin})
    \/ AddBCPlane({DEM_RESERVED_FAMILY_NUM})
    \/ AddWavefrontMeshObject({MaxFamily}, {FlatMesh})
    \/ DisableContactBetweenFamilies({0}, {MaxFamily})
    \/ SetFamilyFixed(UserFamilies, MaxPrescriptions)
    \/ ChangeFamilyWhen({0}, {MaxFamily}, MaxRules)
    \/ Initialize

FamilySpec == ConfigInit /\ [][FamilyNext]_vars

(***************************************************************************)
(* Properties of the handshake                                             *)
(***************************************************************************)
\* steps dT has made since the pair list in use was swapped in
Drift == currentStampOfDynamic - stampLastUpdateOfDynamic

\* the thread that takes the step
Stepper ==
    IF pcK' # pcK THEN "kT" ELSE IF pcD' # pcD THEN "dT" ELSE "main"

\* dT is in the last cycle of the requested run and has passed the
\* publication of that cycle (dynamicDone was set before it)
LastCycleExecuted ==
    /\ pcD = "d_work"
    /\ cycle = nDynamicCycles - 1

\* C1: whenever dT runs the work of a cycle (after the swap-in test of that
\* cycle), in any sequence of DoDynamics / DoDynamicsThenSync calls, the drift
\* currentStampOfDynamic - stampLastUpdateOfDynamic is at least 0 and at most
\* the configured update frequency.
C1_DriftBound ==
    pcD = "d_work" => (0 <= Drift /\ Drift <= m_updateFreq)

C3_RunCallLiveness ==
    /\ (pcM = "m_startD" /\ nDynamicCycles >= 1) ~> (pcM = "m_resetD")
    /\ (pcD = "d_waiting") ~> (pcD # "d_waiting")

\* C4: once dT has executed the last cycle of the requested run, kT eventually
\* leaves its wait and its production loop.
C4_KinematicReleased ==
    LastCycleExecuted ~> (pcK \in {"k_exitNotify", "k_report", "k_idle"})

\* C5: every time kT marks the dT-to-kT buffer not-fresh, kT has copied the
\* current publication of that buffer into its working state, after the
\* publication was made.
C5_ConsumesWhatItAcknowledges ==
    [][(pcK = "k_clear" /\ pcK' = "k_sendLock")
          => (kBufRead /\ kWorkTag = kBufTag)]_vars

\* C6: the snapshot tags of the successive broad-phase runs of kT are strictly
\* increasing.
C6_MonotonicConsumption ==
    [][(pcK = "k_run" /\ pcK' = "k_clear") => lastRunTag' > lastRunTag]_vars

\* C7: the source-snapshot tag of the pair list dT has in use never decreases:
\* a pair list that dT swaps in was computed from a state at least as recent
\* as the state behind the list it replaces.
C7_MonotonicPairListUse ==
    [][dInUseTag' >= dInUseTag]_vars

\* dT, in a call after the first, works with a pair list that it swapped in
\* and that kT computed from a published state
C7_Witness ==
    /\ pcD = "d_work"
    /\ callsMade >= 1
    /\ dInUseTag > 0

\* C8: every write into a handshake buffer is made while the writer holds the
\* mutex of that buffer, and every change of the buffer's fresh flag is made
\* while the thread that changes it holds the same mutex.
C8_FlagAndBufferUnderMutex ==
    [][/\ (pcD = "d_pub" /\ pcD' # pcD)
            => kinematicOwnedBuffer_AccessCoordination = "dT"
       /\ (pcK = "k_send" /\ pcK' # pcK)
            => dynamicOwnedBuffer_AccessCoordination = "kT"
       /\ (kFresh' # kFresh)
            => kinematicOwnedBuffer_AccessCoordination = Stepper
       /\ (dFresh' # dFresh)
            => dynamicOwnedBuffer_AccessCoordination = Stepper]_vars

\* C9: a worker reads its input buffer only while the fresh flag of
\* that buffer is true, and a producer writes a buffer only while the fresh
\* flag of that buffer is false.
C9_FlagGatedAccess ==
    /\ pcK = "k_copy" => kFresh
    /\ pcD = "d_swap" => dFresh
    /\ pcD = "d_pub" => ~kFresh
    /\ pcK = "k_send" => ~dFresh

\* C10: when DoDynamicsThenSync returns, kT is idle, kT has consumed the last
\* state dT published during the call, and both fresh flags are false.
C10_SyncBarrier ==
    (pcM = "m_ret" /\ callKind = "sync")
        => /\ pcK = "k_idle"
           /\ pubInCall => (kBufRead /\ kWorkTag = kBufTag)
           /\ ~kFresh
           /\ ~dFresh

\* C11: dT is in its blocking wait for kT (or on the way into it) only when
\* the number of steps since the pair list in use was swapped in exceeds the
\* update frequency; with a drift within the bound dT goes on to the next
\* cycle without waiting.
C11_WaitsOnlyBeyondDrift ==
    pcD \in {"d_lock", "d_waitTest", "d_wait", "d_waiting"}
        => currentStampOfDynamic - swapInStep > m_updateFreq

\* C12: no step of the caller inside DoDynamics, DoDynamicsThenSync or
\* ResetWorkerThreads changes one of the four collaboration counters, and a
\* counter decreases only in a ClearThreadCollaborationStats step, which
\* leaves all four at 0.
C12_StatsKeptUnlessCleared ==
    [][/\ (pcM' # pcM) => UNCHANGED statVars
       /\ (\/ nDynamicUpdates' < nDynamicUpdates
           \/ nKinematicUpdates' < nKinematicUpdates
           \/ nTimesDynamicHeldBack' < nTimesDynamicHeldBack
           \/ nTimesKinematicHeldBack' < nTimesKinematicHeldBack)
            => /\ UNCHANGED <<pcM, pcK, pcD>>
               /\ pcM = "m_idle"
               /\ nDynamicUpdates' = 0
               /\ nKinematicUpdates' = 0
               /\ nTimesDynamicHeldBack' = 0
               /\ nTimesKinematicHeldBack' = 0]_vars

\* a DoDynamicsThenSync call has gone through ResetWorkerThreads after the
\* workers counted updates and hold-backs
C12_Witness ==
    /\ pcM = "m_ret"
    /\ callKind = "sync"
    /\ nDynamicUpdates > 1
    /\ nKinematicUpdates > 0
    /\ nTimesDynamicHeldBack > 0
    /\ nTimesKinematicHeldBack > 0

\* C13: DoDynamics and DoDynamicsThenSync start a worker only when the solver
\* is initialized (Initialize has completed and ClearCache was not called
\* since).
C13_RunsOnlyWhenReady ==
    [][((dStarted' /\ ~dStarted) \/ (kStarted' /\ ~kStarted))
          => sys.sys_initialized]_vars

(***************************************************************************)
(* Claims about Initialize, ClearCache and the derived counts              *)
(***************************************************************************)
\* number of clumps in the cached batches
NumCachedClumps(s) ==
    Len(Flatten(MapSeq(s.cached_input_clump_batches, LAMBDA b : b.types)))

\* number of spheres of the clumps in the cached batches
NumCachedSpheres(s) ==
    SumSeq(MapSeq(Flatten(MapSeq(s.cached_input_clump_batches, LAMBDA b : b.types)),
                  LAMBDA uid : TemplateOf(s, uid).nComp))

\* what Initialize leaves for the run: template order, flattened template
\* arrays, family remap, counts, boundary planes, expand factor
InitializedView(s) ==
    [templates |-> s.m_templates,
     template_clump_mass |-> s.kTdT_template_clump_mass,
     template_sp_radii |-> s.kTdT_template_sp_radii,
     template_sp_mat_ids |-> s.kTdT_template_sp_mat_ids,
     family_user_impl_map |-> s.kTdT_family_user_impl_map,
     family_impl_user_map |-> s.kTdT_family_impl_user_map,
     familyMasks |-> s.jit.familyMasks,
     counts |-> s.kTdT_counts,
     expand_factor |-> s.kTdT_expand_factor]

\* a newly constructed solver given the definitions s holds
AsNewSolver(s) ==
    [NewSolver EXCEPT
       !.m_ts_size = s.m_ts_size,
       !.m_user_boxSize = s.m_user_boxSize,
       !.m_user_add_bounding_box = s.m_user_add_bounding_box,
       !.m_bounding_box_material = s.m_bounding_box_material,
       !.m_expand_factor = s.m_expand_factor,
       !.m_expand_safety_param = s.m_expand_safety_param,
       !.explicit_nv_override = s.explicit_nv_override,
       !.l = s.l,
       !.nvXp2 = s.nvXp2, !.nvYp2 = s.nvYp2, !.nvZp2 = s.nvZp2,
       !.m_voxelSize = s.m_voxelSize,
       !.m_use_user_instructed_bin_size = s.m_use_user_instructed_bin_size,
       !.m_binSize = IF s.m_use_user_instructed_bin_size THEN s.m_binSize ELSE Uninit,
       !.m_loaded_materials = s.m_loaded_materials,
       !.m_templates = s.m_templates,
       !.cached_input_clump_batches = s.cached_input_clump_batches,
       !.cached_extern_objs = s.cached_extern_objs,
       !.cached_mesh_objs = s.cached_mesh_objs,
       !.m_input_no_contact_pairs = s.m_input_no_contact_pairs,
       !.m_input_family_prescription = s.m_input_family_prescription,
       !.m_family_change_pairs = s.m_family_change_pairs,
       !.m_famnum_change_conditionally = s.m_famnum_change_conditionally]

\* C14: an Initialize that directly follows a completed Initialize leaves
\* the template order, the flattened template arrays, the family remap, the
\* owner and sphere counts, the number of boundary planes and the expand
\* factor as the first call left them.
C14_InitializeIdempotent ==
    [][(/\ lastCall = "Initialize"
        /\ sys.sys_initialized /\ sys.threw = "none"
        /\ initCalls' = initCalls + 1 /\ ~sys'.crashed)
          => /\ sys'.threw = "none"
             /\ InitializedView(sys') = InitializedView(sys)]_vars

\* C15: after every Initialize that completes, the owner count is the number
\* of cached clumps plus cached analytical objects plus cached meshes, the
\* sphere count is the sum of nComp over the cached clumps, and the
\* mass-property count is the number of templates plus analytical objects
\* plus meshes.
C15_CountDerivation ==
    (lastCall = "Initialize" /\ sys.sys_initialized /\ sys.threw = "none")
        => /\ sys.nOwnerBodies = NumCachedClumps(sys) + Len(sys.cached_extern_objs)
                                     + Len(sys.cached_mesh_objs)
           /\ sys.nSpheresGM = NumCachedSpheres(sys)
           /\ sys.nDistinctMassProperties = Len(sys.m_templates) + Len(sys.cached_extern_objs)
                                                + Len(sys.cached_mesh_objs)

\* C16: an Initialize made after ClearCache and the new definitions does not
\* fail on an index out of range and leaves the counts, the flattened arrays
\* and the family data a newly constructed solver leaves when it is given
\* the definitions the solver holds.
C16_ClearCacheAllowsRedefinition ==
    [][(cleared /\ initCalls' = initCalls + 1 /\ ~sys'.crashed
           /\ validateUserInputs(sys).threw = "none")
          => /\ sys'.threw \notin {"equipAnalGeoTemplates", "equipFamilyOnFlyChanges",
                                   "figureOutFamilyMasks"}
             /\ \E sorted \in SortOutcomes(sys.m_templates), ub \in UBOutcomes :
                   LET fresh == Initialize_(AsNewSolver(sys), sorted, ub)
                   IN  /\ fresh.threw = sys'.threw
                       /\ ~fresh.crashed
                       /\ InitializedView(fresh) = InitializedView(sys')]_vars

(***************************************************************************)
(* Claims about the family remap, the contact mask and the prescriptions   *)
(***************************************************************************)
\* the last call was an Initialize and it completed
InitializeCompleted ==
    lastCall = "Initialize" /\ sys.sys_initialized /\ sys.threw = "none" /\ ~sys.crashed

\* the last call was an Initialize and it went through figureOutFamilyMasks
\* as far as the maps
FamilyMapsBuilt ==
    /\ lastCall = "Initialize" /\ ~sys.crashed
    /\ sys.threw \in {"none", "figureOutFamilyMasks", "decideBinSize",
                      "postJITResourceGenSanityCheck", "equipAnalGeoTemplates",
                      "equipFamilyOnFlyChanges"}

\* families carried by the cached clumps and analytical objects
CarriedFamilies(s) ==
    Range(Flatten(MapSeq(s.cached_input_clump_batches, LAMBDA b : b.families)))
        \cup {s.cached_extern_objs[i].family_code : i \in 1..Len(s.cached_extern_objs)}

\* the user called DisableContactBetweenFamilies on u and v, in either order
DisabledByUser(s, u, v) ==
    \E k \in 1..Len(s.m_input_no_contact_pairs) :
        \/ s.m_input_no_contact_pairs[k] = [ID1 |-> u, ID2 |-> v]
        \/ s.m_input_no_contact_pairs[k] = [ID1 |-> v, ID2 |-> u]

\* C17: after an Initialize that completed, the mask the kernels got has one
\* entry per unordered pair of internal families, the entry of (i, j) is the
\* entry of (j, i), and it prevents contact exactly when the user disabled
\* contact between the two user families, in either order.
C17_FamilyMask ==
    InitializeCompleted =>
        LET F == Cardinality(DOMAIN sys.kTdT_family_impl_user_map)
            user == sys.kTdT_family_impl_user_map
            mask == sys.jit.familyMasks
        IN  /\ Len(mask) = (F * (F + 1)) \div 2
            /\ \A i, j \in 0..(F - 1) :
                  /\ mask[locateMaskPair(i, j, F) + 1] = mask[locateMaskPair(j, i, F) + 1]
                  /\ (mask[locateMaskPair(i, j, F) + 1] = DEM_PREVENT_CONTACT)
                        <=> DisabledByUser(sys, user[i], user[j])

ReservedIsPrescribed(s) ==
    \E k \in 1..Len(s.jit.prescriptions) :
        /\ s.jit.prescriptions[k].family = s.kTdT_family_user_impl_map[DEM_RESERVED_FAMILY_NUM]
        /\ s.jit.prescriptions[k].used
        /\ s.jit.prescriptions[k].linVel = "0" /\ s.jit.prescriptions[k].rotVel = "0"
        /\ s.jit.prescriptions[k].linVelPrescribed /\ s.jit.prescriptions[k].rotVelPrescribed

NamedFamilies(s) ==
    {s.cached_mesh_objs[i].family_code : i \in 1..Len(s.cached_mesh_objs)}
      \cup ({s.m_input_family_prescription[i].family :
                i \in 1..Len(s.m_input_family_prescription)} \ {DEM_RESERVED_FAMILY_NUM})
      \cup {s.m_input_no_contact_pairs[i].ID1 : i \in 1..Len(s.m_input_no_contact_pairs)}
      \cup {s.m_input_no_contact_pairs[i].ID2 : i \in 1..Len(s.m_input_no_contact_pairs)}
      \cup {s.m_family_change_pairs[i].ID1 : i \in 1..Len(s.m_family_change_pairs)}
      \cup {s.m_family_change_pairs[i].ID2 : i \in 1..Len(s.m_family_change_pairs)}

\* C20: an Initialize on valid inputs completes, and every family the user
\* named on a mesh, in a prescription, in a no-contact pair or in a
\* family-change rule has a remap entry, also when no clump and no
\* analytical object carries it.
C20_RemapFromAllNamedFamilies ==
    (lastCall = "Initialize" /\ ~sys.crashed /\ sys.threw # "validateUserInputs")
        => /\ sys.threw = "none"
           /\ NamedFamilies(sys) \subseteq DOMAIN sys.kTdT_family_user_impl_map

(***************************************************************************)
(* Prescribed motion: the user prescribes the motion of families of which  *)
(* some have no entity, the one template has a component of radius zero,   *)
(* so that an Initialize without a bin size ends in decideBinSize.         *)
(***************************************************************************)
PrescribeNext ==
    \/ SetTimeStepSize({1})
    \/ InstructBoxDomainNumVoxel({SmallWorld}, {1})
    \/ InstructBinSize({2 * UnitRadius})
    \/ LoadMaterialType(Materials, 1)
    \/ LoadClumpType({1}, {0}, 1)
    \/ AddClumps({1}, UserFamilies, {Origin})
    \/ SetFamilyFixed(UserFamilies, MaxMerged)
    \/ SetFamilyPrescribedLinVel(UserFamilies, {"v"}, MaxMerged)
    \/ SetFamilyPrescribedAngVel(UserFamilies, {"w"}, MaxMerged)
    \/ SetFamilyPrescribedPosition(UserFamilies, {"p"}, MaxMerged)
    \/ Initialize

PrescribeSpec == ConfigInit /\ [][PrescribeNext]_vars

\* s without the input prescriptions of the families outside fams
WithoutUnused(s, fams) ==
    [s EXCEPT !.m_input_family_prescription = SelectSeq(@, LAMBDA p : p.family \in fams)]

\* families of the input prescriptions of s that are outside fams
UnusedPrescribed(s, fams) ==
    {s.m_input_family_prescription[i].family :
        i \in 1..Len(s.m_input_family_prescription)} \ fams

\* C21: a prescription of a family that no entity carries does not make
\* Initialize fail: Initialize ends as it ends without that input, with the
\* same prescription records for the kernels and in the solver, and when it
\* completes it has warned of each such family but the reserved one.
C21_UnusedPrescriptionSkipped ==
    [][initCalls' = initCalls + 1 =>
          \E sorted \in SortOutcomes(sys.m_templates), ub \in UBOutcomes :
              LET with == Initialize_(sys, sorted, ub)
                  carried == Range(with.unique_user_families)
                  without == Initialize_(WithoutUnused(sys, carried), sorted, ub)
              IN  /\ sys' = with
                  /\ without.threw = with.threw
                  /\ without.crashed = with.crashed
                  /\ without.jit.prescriptions = with.jit.prescriptions
                  /\ without.m_unique_family_prescription = with.m_unique_family_prescription
                  /\ with.threw = "none" /\ ~with.crashed =>
                        with.warnings = sys.warnings \cup
                            (UnusedPrescribed(sys, carried) \ {DEM_RESERVED_FAMILY_NUM})]_vars

\* an Initialize completed although the user prescribed the motion of a
\* family that nothing carries; it warned of the family and built the
\* record of another family
C21_Witness ==
    /\ InitializeCompleted
    /\ \E f \in UnusedPrescribed(sys, DOMAIN sys.kTdT_family_user_impl_map) :
           f # DEM_RESERVED_FAMILY_NUM /\ f \in sys.warnings
    /\ sys.jit.prescriptions # <<>>

\* the input prescriptions the user addressed to family u, in call order
InputsOf(s, u) ==
    SelectSeq(s.m_input_family_prescription, LAMBDA p : p.family = u)

\* the value of field in the last of inputs that has one
LastGiven(inputs, field) ==
    LET given == {i \in 1..Len(inputs) : inputs[i][field] # "none"}
    IN  IF given = {} THEN "none"
        ELSE inputs[CHOOSE i \in given : \A j \in given : j <= i][field]

\* the record the kernels got for internal family impl: equipFamilyPrescribedMotions
\* passes the records in use on
MergedRecord(s, impl) ==
    LET ks == {k \in 1..Len(s.jit.prescriptions) : s.jit.prescriptions[k].family = impl}
    IN  IF ks = {} THEN NoPrescription ELSE s.jit.prescriptions[CHOOSE k \in ks : TRUE]

DictateFlags == {"linVelPrescribed", "rotVelPrescribed", "rotPosPrescribed", "linPosPrescribed"}

ExpressionFields == {"linPos", "linVel", "rotVel"}

\* C22: after an Initialize that completed, for every internal family each
\* dictate flag of its record is the OR of the flag over the inputs given
\* to the family, and each expression is that of the last input which has
\* one, "none" when there is none.
C22_PrescriptionMerge ==
    InitializeCompleted =>
        \A impl \in DOMAIN sys.kTdT_family_impl_user_map :
            LET inputs == InputsOf(sys, sys.kTdT_family_impl_user_map[impl])
                rec == MergedRecord(sys, impl)
            IN  /\ \A flag \in DictateFlags :
                      rec[flag] <=> \E i \in 1..Len(inputs) : inputs[i][flag]
                /\ \A field \in ExpressionFields :
                      rec[field] = LastGiven(inputs, field)

(***************************************************************************)
(* Family changes: the user declares rules, initializes, and dT sweeps the *)
(* clumps.                                                                 *)
(***************************************************************************)
SweepNext ==
    \/ SetTimeStepSize({1})
    \/ InstructBoxDomainNumVoxel({SmallWorld}, {1})
    \/ LoadMaterialType(Materials, 1)
    \/ LoadClumpType({1}, {UnitRadius}, 1)
    \/ AddClumps({1}, UserFamilies, {Origin})
    \/ ChangeFamilyWhen(UserFamilies, UserFamilies, MaxSweepRules)
    \/ Initialize
    \/ FamilyChangeSweep

SweepSpec == ConfigInit /\ [][SweepNext]_vars

\* the tag the claim gives a clump of tag family: the target of the first
\* rule from position i on that is of this family and whose condition holds
RECURSIVE FirstMatch(_, _, _, _)
FirstMatch(rules, family, shouldMakeChange, i) ==
    IF i > Len(rules) THEN family
    ELSE IF family = rules[i][1] /\ shouldMakeChange[i] THEN rules[i][2]
    ELSE FirstMatch(rules, family, shouldMakeChange, i + 1)

\* C23: a sweep gives every clump the target of the first rule, in the
\* order of the ChangeFamilyWhen calls, whose source is the family the clump
\* had at the start of the sweep and whose condition holds; later rules
\* that match as well do not change the outcome.
C23_SweepFirstMatch ==
    [][lastCall' = "FamilyChangeSweep" =>
          \A thisClump \in 1..Len(sys.kTdT_familyID) :
              sys'.kTdT_familyID[thisClump] =
                  FirstMatch(sys.jit.familyChangeRules, sys.kTdT_familyID[thisClump],
                             sys'.kTdT_shouldMakeChange[thisClump], 1)]_vars

(***************************************************************************)
(* Materials: the user loads materials of which some are equal within the  *)
(* tolerance, attaches them to a template, a plane and a mesh, and         *)
(* initializes, clears and initializes again.                              *)
(***************************************************************************)
MaterialNext ==
    \/ SetTimeStepSize({1})
    \/ InstructBoxDomainNumVoxel({SmallWorld}, {1})
    \/ LoadMaterialType(CloseMaterials, MaxTable)
    \/ LoadClumpType({1}, {UnitRadius}, 1)
    \/ AddBCPlane({DEM_RESERVED_FAMILY_NUM})
    \/ AddWavefrontMeshObject({DEM_RESERVED_FAMILY_NUM}, {FlatMesh})
    \/ ClearCache
    \/ Initialize

MaterialSpec == ConfigInit /\ [][MaterialNext]_vars

\* C24: after an Initialize that completed no two entries of the material
\* table are equal under the tolerance test: a material equal to one that
\* is in the table is not entered again.
C24_MaterialsDeduplicated ==
    InitializeCompleted =>
        \A i, j \in 1..Len(sys.m_loaded_materials) :
            i # j => ~is_DEM_material_same(sys.m_loaded_materials[i], sys.m_loaded_materials[j])

\* index (0-based) is within the material table of s and the entry it
\* refers to is equal under the tolerance test to material
RefersTo(s, index, material) ==
    /\ index < s.nMatTuples
    /\ index < Len(s.m_loaded_materials)
    /\ is_DEM_material_same(s.m_loaded_materials[index + 1], material)

\* the template whose components row r of the flattened template arrays
\* holds: preprocessClumpTemplates adds one row per template, in the order
\* of the templates
RowTemplate(s, r) == s.m_templates[((r - 1) % Len(s.m_templates)) + 1]

\* C25: after every Initialize that completed, every material index
\* stored for a clump component, an analytical primitive or a mesh facet is
\* within the material table and refers to an entry equal under the
\* tolerance test to the material the user attached to it.
C25_MaterialIndicesValid ==
    InitializeCompleted =>
        /\ \A r \in 1..Len(sys.kTdT_template_sp_mat_ids) :
              \A c \in 1..Len(sys.kTdT_template_sp_mat_ids[r]) :
                  RefersTo(sys, sys.kTdT_template_sp_mat_ids[r][c], RowTemplate(sys, r).material)
        /\ \A i \in 1..Len(sys.jit.objMaterial) :
              RefersTo(sys, sys.jit.objMaterial[i],
                       sys.cached_extern_objs[sys.m_anal_owner[i] + 1].material)
        /\ \A k \in 1..Len(sys.m_mesh_facet_materials) :
              RefersTo(sys, sys.m_mesh_facet_materials[k],
                       sys.cached_mesh_objs[sys.m_mesh_facet_owner[k] + 1].material)

(***************************************************************************)
(* Templates: the user loads templates of one and of more components, in   *)
(* any order, before and after an Initialize.                              *)
(***************************************************************************)
TemplateNext ==
    \/ SetTimeStepSize({1})
    \/ InstructBoxDomainNumVoxel({SmallWorld}, {1})
    \/ LoadMaterialType(Materials, 1)
    \/ LoadClumpType(1..MaxComp, {UnitRadius}, MaxSorted)
    \/ AddClumps({1}, {0}, {Origin})
    \/ ClearCache
    \/ Initialize

TemplateSpec == ConfigInit /\ [][TemplateNext]_vars

\* C26: after an Initialize that completed the templates are in
\* non-decreasing order of their component counts, the template at index i
\* has mark i, and row i of the flattened arrays of masses, radii and
\* material numbers holds the data of the template at index i.
C26_TemplateOrdering ==
    InitializeCompleted =>
        /\ \A i \in 1..(Len(sys.m_templates) - 1) :
              sys.m_templates[i].nComp <= sys.m_templates[i + 1].nComp
        /\ \A i \in 1..Len(sys.m_templates) :
              /\ sys.m_templates[i].mark = i - 1
              /\ i <= Len(sys.kTdT_template_clump_mass)
              /\ sys.kTdT_template_clump_mass[i] = sys.m_templates[i].mass
              /\ sys.kTdT_template_sp_radii[i] =
                     [c \in 1..sys.m_templates[i].nComp |-> sys.m_templates[i].radius]
              /\ Len(sys.kTdT_template_sp_mat_ids[i]) = sys.m_templates[i].nComp
              /\ \A c \in 1..Len(sys.kTdT_template_sp_mat_ids[i]) :
                     RefersTo(sys, sys.kTdT_template_sp_mat_ids[i][c], sys.m_templates[i].material)

(***************************************************************************)
(* Bins: the user gives the world as numbers of voxels of small and of     *)
(* large edge, loads templates of radius zero, of the tolerance and above, *)
(* and gives a bin size or none.                                           *)
(***************************************************************************)
BinNext ==
    \/ SetTimeStepSize({1})
    \/ InstructBoxDomainNumVoxel({SmallWorld, <<VoxelIdBits, 0, 0>>}, {1, BinIdMax})
    \/ InstructBinSize({1, 2 * UnitRadius})
    \/ LoadMaterialType(Materials, 1)
    \/ LoadClumpType({1}, {0, SGPS_DEM_TINY_FLOAT, UnitRadius}, 1)
    \/ AddClumps({1}, {0}, {Origin})
    \/ Initialize

BinSpec == ConfigInit /\ [][BinNext]_vars

\* the last call was an Initialize that went as far as the bin counts of
\* decideBinSize
BinsCounted ==
    /\ lastCall = "Initialize" /\ ~sys.crashed
    /\ sys.threw \in {"none", "postJITResourceGenSanityCheck", "equipAnalGeoTemplates",
                      "equipFamilyOnFlyChanges"}

\* the least integer that is not below a / b, for positive b
Ceiling(a, b) == (a + b - 1) \div b

\* C27: on every axis the number of bins decideBinSize computes is the
\* ceiling of the extent of the axis (voxel edge times 2^nv) over the bin
\* size, for every positive bin size, one that divides the extent included.
C27_BinsPerAxisCeiling ==
    (BinsCounted /\ sys.m_binSize > 0) =>
        /\ sys.nbX = Ceiling(sys.m_voxelSize * Pow2(sys.nvXp2), sys.m_binSize)
        /\ sys.nbY = Ceiling(sys.m_voxelSize * Pow2(sys.nvYp2), sys.m_binSize)
        /\ sys.nbZ = Ceiling(sys.m_voxelSize * Pow2(sys.nvZp2), sys.m_binSize)

\* the smallest radius of a component of the loaded templates
SmallestLoadedRadius(s) ==
    Smallest({s.m_templates[i].radius : i \in 1..Len(s.m_templates)})

\* the Initialize of this step got to decideBinSize
ReachedDecideBinSize ==
    /\ initCalls' = initCalls + 1 /\ ~sys'.crashed
    /\ sys'.threw \in {"none", "decideBinSize", "postJITResourceGenSanityCheck",
                       "equipAnalGeoTemplates", "equipFamilyOnFlyChanges"}

\* C28: an Initialize of a solver that was given no bin size takes twice
\* the smallest radius of the loaded templates when that radius is positive
\* and ends with the fatal error of decideBinSize when it is not; a bin
\* size the user gave is used as it is.
C28_BinSizeDecision ==
    [][ReachedDecideBinSize =>
          IF sys.m_use_user_instructed_bin_size
          THEN sys'.threw # "decideBinSize" /\ sys'.m_binSize = sys.m_binSize
          ELSE IF SmallestLoadedRadius(sys') > 0
               THEN /\ sys'.threw # "decideBinSize"
                    /\ sys'.m_binSize = 2 * SmallestLoadedRadius(sys')
               ELSE sys'.threw = "decideBinSize"]_vars

\* the number of bins of the world of s, counted without bound: the product
\* of the per-axis counts, each the whole part of extent over bin size and
\* one more
TrueNumBins(s) ==
    (((s.m_voxelSize * Pow2(s.nvXp2)) \div s.m_binSize) + 1)
      * (((s.m_voxelSize * Pow2(s.nvYp2)) \div s.m_binSize) + 1)
      * (((s.m_voxelSize * Pow2(s.nvZp2)) \div s.m_binSize) + 1)

\* C29: Initialize ends with a fatal error whenever the number of bins,
\* counted without truncation, is above the largest binID_t, whenever the
\* number of mass properties reaches the largest inertiaOffset_t, and
\* whenever the number of families is above the largest family_t.
C29_CapacityErrors ==
    /\ (BinsCounted /\ sys.m_binSize > 0 /\ TrueNumBins(sys) > BinIdMax)
          => sys.threw = "postJITResourceGenSanityCheck"
    /\ (BinsCounted /\ sys.nDistinctMassProperties >= InertiaOffsetMax)
          => sys.threw = "postJITResourceGenSanityCheck"
    /\ (BinsCounted /\ sys.nDistinctFamilies > FamilyMax) => sys.threw # "none"

(***************************************************************************)
(* Validation: the user leaves inputs out or gives a time step or a box    *)
(* that is not positive, before a first Initialize and after one that      *)
(* completed.                                                              *)
(***************************************************************************)
ValidateNext ==
    \/ SetTimeStepSize({0, 1})
    \/ InstructBoxDomainNumVoxel({SmallWorld}, {1})
    \/ InstructBoxDomainDimension({Float3(4, 4, 0), Float3(4, 4, 4)})
    \/ LoadMaterialType(Materials, 1)
    \/ LoadClumpType({1}, {UnitRadius}, 1)
    \/ AddClumps({1}, {0}, {Origin})
    \/ ClearCache
    \/ Initialize

ValidateSpec == ConfigInit /\ [][ValidateNext]_vars

\* no material is loaded, the time step is not positive, no template is
\* loaded, or a dimension of the box is not positive
InvalidInputs(s) ==
    \/ s.m_loaded_materials = <<>>
    \/ s.m_ts_size <= 0
    \/ s.m_templates = <<>>
    \/ \E d \in {s.m_user_boxSize.x, s.m_user_boxSize.y, s.m_user_boxSize.z} : d <= 0

C37_DeliveriesFollowOrders ==
    nDynamicUpdates <= nKinematicUpdates + 1

(***************************************************************************)
(* C38: a run call of zero steps                                           *)
(***************************************************************************)
\* C38: a call whose duration rounds to zero steps (DoDynamics or
\* DoDynamicsThenSync with nDynamicCycles = 0) executes no dT cycle, so the
\* step counter keeps its value, and it ends with the caller back from the
\* call and kT out of its loop: neither stays blocked forever.
C38_ZeroStepCallTerminates ==
    /\ [][nDynamicCycles = 0 =>
             currentStampOfDynamic' = currentStampOfDynamic]_vars
    /\ (pcM = "m_startD" /\ nDynamicCycles = 0)
           ~> (pcM = "m_idle" /\ pcK = "k_idle")

(***************************************************************************)
(* C33: the number of steps of a run call.  StepSpec: the user sets the    *)
(* time step, or leaves the one the solver is constructed with, and makes  *)
(* DoDynamics calls of durations that are no whole multiple of the step,   *)
(* zero or negative.                                                       *)
(***************************************************************************)
StepDurations == -1 .. 2 * MaxCycles

StepNext ==
    \/ (pcM = "m_idle" /\ SetTimeStepSize({2}))
    \/ DoDynamicsFor(StepDurations)
    \/ Main_StartD \/ Main_StartK \/ Main_LockD \/ Main_TestD \/ Main_WaitD
    \/ Main_ResetD \/ Main_Return
    \/ kT_Next
    \/ dT_Next
    \/ SpuriousWakeup

StepSpec == ConfigInit /\ [][StepNext]_vars

\* C33: when a DoDynamics(duration) call returns, dT's step counter is the
\* counter at the call plus round(duration / time step): exactly that many
\* cycles were executed, whatever kT did meanwhile.
C33_StepsOfACall ==
    pcM = "m_ret" =>
        currentStampOfDynamic
            = stampAtCall + round(thisCallDuration, sys.m_ts_size)

(***************************************************************************)
(* C39: the dictate argument of the velocity prescriptions                 *)
(***************************************************************************)
\* the inputs of a family are dictated angular velocities and nothing else
OnlyDictatedAngVel(inputs) ==
    /\ inputs # <<>>
    /\ \A i \in 1..Len(inputs) :
           /\ inputs[i].rotVel # "none"
           /\ inputs[i].linVel = "none"
           /\ inputs[i].linPos = "none"
           /\ inputs[i].rotVelPrescribed

\* C39: SetFamilyPrescribedLinVel and SetFamilyPrescribedAngVel each record
\* their dictate argument on the linear and on the rotational dictate flag
\* of the record they push; and after an Initialize that completed, a
\* family given only a dictated angular velocity has its linear flag
\* dictated while its linear velocity expression is "none".
C39_DictateOnBothFlags ==
    /\ [][lastCall' \in {"SetFamilyPrescribedLinVel", "SetFamilyPrescribedAngVel"} =>
            LET pushed == sys'.m_input_family_prescription
                preInfo == pushed[Len(pushed)]
            IN  /\ Len(pushed) = Len(sys.m_input_family_prescription) + 1
                /\ preInfo.linVelPrescribed = preInfo.rotVelPrescribed]_vars
    /\ [](InitializeCompleted =>
            \A impl \in DOMAIN sys.kTdT_family_impl_user_map :
                OnlyDictatedAngVel(InputsOf(sys, sys.kTdT_family_impl_user_map[impl])) =>
                    /\ MergedRecord(sys, impl).linVelPrescribed
                    /\ MergedRecord(sys, impl).linVel = "none")

(***************************************************************************)
(* C32: the expand factor in force.  ExpandSpec: the user gives the time   *)
(* step, the update frequency, a safety multiplier and the largest         *)
(* expected velocity, and initializes the solver, once or again.           *)
(***************************************************************************)
ExpandVels == {3}

ExpandNext ==
    \/ SetTimeStepSize({2})
    \/ SetCDUpdateFreq({MaxFreq})
    \/ InstructBoxDomainNumVoxel({SmallWorld}, {1})
    \/ InstructBinSize({2 * UnitRadius})
    \/ LoadMaterialType(Materials, 1)
    \/ LoadClumpType({1}, {UnitRadius}, 1)
    \/ AddClumps({1}, {0}, {Origin})
    \/ SuggestExpandSafetyParam({2})
    \/ SuggestExpandFactor(ExpandVels)
    \/ Initialize

ExpandSpec == ConfigInit /\ [][ExpandNext]_vars

\* C32: the only source of an expand factor being SuggestExpandFactor(max_vel),
\* after every Initialize that completed the factor the workers got is zero
\* (none was derived) or max_vel * time step * update frequency * safety
\* multiplier.
C32_ExpandFactorInForce ==
    (InitializeCompleted /\ sys.kTdT_expand_factor # 0) =>
        \E max_vel \in ExpandVels :
            sys.kTdT_expand_factor
                = max_vel * sys.m_ts_size * m_updateFreq * sys.m_expand_safety_param

(***************************************************************************)
(* C34: the sort instruction kT gets.  FlagSpec: the user picks a force    *)
(* model and the solver flags in any order and initializes the solver.     *)
(***************************************************************************)
FlagNext ==
    \/ SetTimeStepSize({1})
    \/ InstructBoxDomainNumVoxel({SmallWorld}, {1})
    \/ LoadMaterialType(Materials, 1)
    \/ LoadClumpType({1}, {UnitRadius}, 1)
    \/ SetSortContactPairs(BOOLEAN)
    \/ UseFrictionalHertzianModel
    \/ UseFrictionlessHertzianModel
    \/ SetSolverHistoryless(BOOLEAN)
    \/ UseCompactForceKernel(BOOLEAN)
    \/ Initialize

FlagSpec == ConfigInit /\ [][FlagNext]_vars

\* C34: after an Initialize that completed, whatever calls of
\* SetSortContactPairs, UseFrictionalHertzianModel, UseFrictionlessHertzianModel,
\* SetSolverHistoryless and UseCompactForceKernel came before it, a solver
\* that is history-based has told kT to sort the contact pairs.
C34_HistoryBasedSorts ==
    (InitializeCompleted /\ ~sys.kTdT_isHistoryless) => sys.kT_should_sort_pairs

(***************************************************************************)
(* C36: the templates that are jitified                                    *)
(***************************************************************************)
\* the component counts of the templates, in the order Initialize left them
SortedComponentCounts == [i \in 1..Len(sys.m_templates) |-> sys.m_templates[i].nComp]

\* the length of the longest prefix of counts whose total is within budget
LongestPrefixWithin(counts, budget) ==
    CHOOSE k \in 0..Len(counts) :
        /\ SumSeq(SubSeq(counts, 1, k)) <= budget
        /\ \A j \in (k + 1)..Len(counts) : SumSeq(SubSeq(counts, 1, j)) > budget

\* C36: after an Initialize that completed, the number of jitifiable
\* templates is the length of the longest prefix of the sorted template list
\* whose total component count does not exceed the budget, and the number of
\* jitifiable components is the total of those templates.
C36_SpecializationBudget ==
    InitializeCompleted =>
        LET k == LongestPrefixWithin(SortedComponentCounts,
                                     DEM_THRESHOLD_CANT_JITIFY_ALL_COMP)
        IN  /\ sys.nJitifiableClumpTopo = k
            /\ sys.nJitifiableClumpComponents
                   = SumSeq(SubSeq(SortedComponentCounts, 1, k))

(***************************************************************************)
(* C31: the orientation of the stored facets.  MeshSpec: the user loads a  *)
(* mesh of one triangle with vertices on a small grid, with or without a   *)
(* normal, and initializes the solver.                                     *)
(***************************************************************************)
GridPoints == {Float3(x, y, z) : x, y, z \in 0..MaxCoord}

MeshNormals == {Float3(x, y, z) : x, y, z \in -1..1}

\* one triangle with its first vertex in the origin; with normals in use the
\* three vertices of the triangle share one normal
GridMeshes ==
    LET tris == {[p1 |-> a, p2 |-> b, p3 |-> c] :
                    a \in {Float3(0, 0, 0)},
                    b \in GridPoints, c \in GridPoints}
    IN  {[triangles |-> <<t>>, use_mesh_normals |-> TRUE, normals |-> <<n>>,
          face_n_indices |-> <<Float3(0, 0, 0)>>] : t \in tris, n \in MeshNormals}
        \cup
        {[triangles |-> <<t>>, use_mesh_normals |-> FALSE, normals |-> <<>>,
          face_n_indices |-> <<>>] : t \in tris}

MeshNext ==
    \/ SetTimeStepSize({1})
    \/ InstructBoxDomainNumVoxel({SmallWorld}, {1})
    \/ LoadMaterialType(Materials, 1)
    \/ LoadClumpType({1}, {UnitRadius}, 1)
    \/ AddWavefrontMeshObject({0}, GridMeshes)
    \/ Initialize

MeshSpec == ConfigInit /\ [][MeshNext]_vars

\* the normal of a right-hand-rule traversal of the vertices of tri
RHRNormal(tri) == cross(Minus(tri.p2, tri.p1), Minus(tri.p3, tri.p1))

\* the mesh and the triangle that stored facet k came from, and the normal
\* given for it
InputFacet(k) == sys.cached_mesh_objs[sys.m_mesh_facet_owner[k] + 1].triangles[1]
ReferenceNormal(k) == sys.cached_mesh_objs[sys.m_mesh_facet_owner[k] + 1].normals[1]

\* C31: for every facet of a mesh that comes with a reference normal, the
\* stored facet has the vertices of the input facet with p1 in place; p2 and
\* p3 are exchanged exactly when the right-hand-rule normal of the input has
\* a negative dot product with the reference normal, and the stored facet's
\* right-hand-rule normal never has one.
C31_FacetReorientation ==
    InitializeCompleted =>
        \A k \in 1..Len(sys.m_mesh_facets) :
            sys.cached_mesh_objs[sys.m_mesh_facet_owner[k] + 1].use_mesh_normals =>
                LET in == InputFacet(k)
                    stored == sys.m_mesh_facets[k]
                    against == dot(RHRNormal(in), ReferenceNormal(k)) < 0
                IN  /\ stored.p1 = in.p1
                    /\ against => (stored.p2 = in.p3 /\ stored.p3 = in.p2)
                    /\ ~against => (stored.p2 = in.p2 /\ stored.p3 = in.p3)
                    /\ dot(RHRNormal(stored), ReferenceNormal(k)) >= 0

\* a facet whose traversal was against its reference normal has been stored
\* with two distinct vertices exchanged
C31_Witness ==
    /\ InitializeCompleted
    /\ \E k \in 1..Len(sys.m_mesh_facets) :
           /\ sys.cached_mesh_objs[sys.m_mesh_facet_owner[k] + 1].use_mesh_normals
           /\ dot(RHRNormal(InputFacet(k)), ReferenceNormal(k)) < 0
           /\ sys.m_mesh_facets[k].p2 # InputFacet(k).p2

(***************************************************************************)
(* C40: the wildcard names of a force model.  WildcardSpec: the user gives *)
(* the per-contact and the per-owner wildcards of the model any number of  *)
(* times; a name is made of letters and spaces.                            *)
(***************************************************************************)
NameChars == {"d", " "}

RECURSIVE NamesOfLen(_)
NamesOfLen(n) ==
    IF n = 0 THEN {<<>>}
    ELSE {Append(a_str, c) : a_str \in NamesOfLen(n - 1), c \in NameChars}

WildcardNames == UNION {NamesOfLen(n) : n \in 0..MaxNameLen}

WildcardInputs == {w \in SUBSET WildcardNames : Cardinality(w) <= MaxWildcards}

WildcardNext ==
    \/ SetPerContactWildcards(WildcardInputs)
    \/ SetPerOwnerWildcards(WildcardInputs)

WildcardSpec == ConfigInit /\ [][WildcardNext]_vars

HasSpace(a_str) == \E i \in 1..Len(a_str) : a_str[i] = " "

\* C40: a wildcard call whose input holds a name with a space in it ends
\* with an error and leaves both stored wildcard sets as they were; any
\* other call ends without an error, and the set it is about is exactly the
\* input while the other set is as it was.
C40_WildcardNames ==
    [][ /\ lastCall' = "SetPerContactWildcards" =>
            IF \E a_str \in sys'.wildcards : HasSpace(a_str)
              THEN /\ sys'.threw # "none"
                   /\ sys'.m_contact_wildcards = sys.m_contact_wildcards
                   /\ sys'.m_owner_wildcards = sys.m_owner_wildcards
              ELSE /\ sys'.threw = "none"
                   /\ sys'.m_contact_wildcards = sys'.wildcards
                   /\ sys'.m_owner_wildcards = sys.m_owner_wildcards
        /\ lastCall' = "SetPerOwnerWildcards" =>
            IF \E a_str \in sys'.wildcards : HasSpace(a_str)
              THEN /\ sys'.threw # "none"
                   /\ sys'.m_contact_wildcards = sys.m_contact_wildcards
                   /\ sys'.m_owner_wildcards = sys.m_owner_wildcards
              ELSE /\ sys'.threw = "none"
                   /\ sys'.m_owner_wildcards = sys'.wildcards
                   /\ sys'.m_contact_wildcards = sys.m_contact_wildcards ]_vars

\* a call with a space in the second of two names was rejected with a
\* non-empty set of per-contact wildcards in store
C40_Witness ==
    /\ lastCall = "SetPerContactWildcards"
    /\ sys.threw = "SetPerContactWildcards"
    /\ sys.wildcards = {<<"d">>, <<"d", " ">>}
    /\ sys.m_contact_wildcards = {<<"d", "d">>}

(***************************************************************************)
(* C35: the pairs of the broad phase.  BroadSpec: the user loads one       *)
(* sphere template, puts up to MaxBatches spheres at places on a line,     *)
(* initializes the solver once and makes one synchronized call.            *)
(***************************************************************************)
SpherePlaces == {Float3(k * UnitRadius, 0, 0) : k \in {0, 1, 4}}

BroadNext ==
    \/ (callsMade = 0 /\ SetTimeStepSize({1}))
    \/ (callsMade = 0 /\ InstructBoxDomainNumVoxel({SmallWorld}, {1}))
    \/ (callsMade = 0 /\ LoadMaterialType(Materials, 1))
    \/ (callsMade = 0 /\ LoadClumpType({1}, {UnitRadius}, 1))
    \/ (callsMade = 0 /\ AddClumps({1}, {0}, SpherePlaces))
    \/ (callsMade = 0 /\ initCalls = 0 /\ Initialize)
    \/ (callsMade = 0 /\ InitializeCompleted /\ DoDynamicsThenSync)
    \/ Main_Next
    \/ kT_Next
    \/ dT_Next
    \/ SpuriousWakeup

BroadSpec == ConfigInit /\ [][BroadNext]_vars

\* the bounding spheres of a and b, inflated by the safety margin, overlap
InflatedOverlap(gd, beta, a, b) ==
    LET d == Minus(gd.xyz[a], gd.xyz[b])
        reach == gd.radius[a] + beta + gd.radius[b] + beta
    IN  dot(d, d) < reach * reach

\* the family mask the kernels got lets the families of a and b touch
MaskAllows(s, a, b) ==
    LET F == Cardinality(DOMAIN s.kTdT_family_impl_user_map)
        gd == s.kT_granData
    IN  s.jit.familyMasks[locateMaskPair(gd.familyID[a], gd.familyID[b], F) + 1]
            # DEM_PREVENT_CONTACT

\* C35: once kT has run its production step on the spheres of a completed
\* Initialize, its pair list holds every pair of spheres whose inflated
\* bounding spheres overlap and whose families the mask lets touch.
C35_BroadPhaseComplete ==
    (sys.sys_initialized /\ lastRunTag # -1) =>
        LET gd == sys.kT_granData
        IN  \A a, b \in 1..Len(gd.xyz) :
                (a < b /\ InflatedOverlap(gd, sys.kTdT_expand_factor, a, b)
                       /\ MaskAllows(sys, a, b))
                    => (<<a, b>> \in gd.contactPairs \/ <<b, a>> \in gd.contactPairs)

====
